---------------------------- MODULE Spec2Model ----------------------------
(***************************************************************************)
(* Model of the adaptive solving engine of the browser-challenge agent:    *)
(*   - the progress oracle  _check_progress          (SpecProgress)        *)
(*   - the submission routine _fill_and_submit       (SpecSubmit)          *)
(*   - the per-step loop of AgentChallengeSolver     (Spec)                *)
(*   - the session loop run() of both solvers        (SpecRun)             *)
(*   - main() around run(): budget and faults        (SpecMain)            *)
(*   - VisionAnalyzer.analyze_page                   (SpecVision)          *)
(*   - the obstruction clearer _clear_popups         (SpecClear)           *)
(*   - the candidate extractor extract_hidden_codes  (SpecExtract)         *)
(*   - the dispatcher of ChallengeSolver, in full    (SpecClassic)         *)
(*   - its archetype handlers, one call each         (SpecHandlers)        *)
(*   - the fast path on pages with content           (SpecScenario)        *)
(*   - MetricsTracker under any sequence of calls    (SpecTracker)         *)
(*   - run() and _solve_step with their accounting   (SpecUsage)           *)
(*   - detect_challenge_type                         (SpecDetect)          *)
(*   - the audio handler and its response listener   (SpecAudio)           *)
(*   - the video handler                             (SpecVideo)           *)
(* The page (Interactive Surface) and the Reasoning Oracle are the         *)
(* environment: what they answer is drawn with \E from small sets.         *)
(***************************************************************************)
EXTENDS Integers, Sequences, FiniteSets, TLC

VARIABLES
    \* ---- progress oracle, called on its own
    cp_loc,         \* the location identifier handed to _check_progress
    cp_step,        \* the current step handed to _check_progress
    cp_out,         \* what AgentChallengeSolver._check_progress did
    cp_out2,        \* what ChallengeSolver._check_progress did
    \* ---- submit-control selection of _fill_and_submit, called on its own
    fs_dom,         \* the page: the code input and the buttons around it
    fs_click,       \* what the selection script of _fill_and_submit did
    \* ---- the session: run(), _solve_step and the strategies it calls
    solver,         \* "agent" (AgentChallengeSolver) or "classic" (ChallengeSolver)
    browser,        \* "closed", "open" or "stopped"
    pc,             \* where the session is
    current_step,   \* the loop variable step of run(), self.current_step
    attempt,        \* the loop variable of _solve_step
    failed_codes,   \* the local list failed_codes of _solve_step
    queue,          \* what is left of the list a submission loop iterates
    codes,          \* the local list codes of the fast path
    codes_to_try,   \* the parameter of _try_scroll_to_find_nav
    ret,            \* the call site _try_scroll_to_find_nav returns to
    action,         \* the oracle's answer being processed
    page,           \* the step the page is on (its location is PageUrl(page))
    metric,         \* the record of metrics.challenges touched by this step
    \* ---- history variables
    everFailed,     \* the tokens whose submission failed during this step
    prevFailed,     \* the tokens whose submission failed during the step before
    ev,             \* what the last action submitted and clicked
    oracleAt,       \* the attempts of this step that called the vision analyzer
    vcall,          \* the arguments of the last such call of this step
    resets,         \* the state resets (navigate away and back) of this step
    handler,        \* what _solve_challenge owes to the last positive report of a handler
    \* ---- main() around run(): the wall-clock budget and the results file
    main_pc,        \* where main() is
    keep_open,      \* the flag --keep-open of agent_main.py
    results_file,   \* the number of steps in the summary main() wrote, -1 before
    \* ---- VisionAnalyzer.analyze_page, called on its own
    va_attempt,     \* the argument attempt
    va_response,    \* the response of the model
    va_out,         \* what analyze_page did
    \* ---- _clear_popups, called on its own
    cl_page,        \* the overlays of the page
    cl_counts,      \* the counts the calls returned so far
    cl_before,      \* the overlays of the page before the last call
    cl_clicked,     \* the buttons the last call clicked
    cl_script,      \* the script that was called, "" before
    \* ---- extract_hidden_codes, called on its own
    ex_page,        \* the page content, place by place
    ex_out,         \* what extract_hidden_codes did
    \* ---- an archetype handler of ChallengeSolver, called on its own
    tried,          \* the handler, the page it met and what it did
    \* ---- MetricsTracker
    challenges,     \* the dict challenges: a ChallengeMetric for every number started
    started,        \* history: the numbers start_challenge was called with
    \* ---- run() and _solve_step with their accounting, attempts taken whole
    us_pc,          \* where the session is
    us_step,        \* the loop variable step of run()
    us_attempt,     \* the loop variable attempt of _solve_step
    location,       \* the step the page shows and whether its location carries a fragment
    total_tin,      \* the local total_tin of _solve_step
    total_tout,     \* the local total_tout of _solve_step
    spent,          \* history: the sum of the costs the oracle returned so far
    \* ---- detect_challenge_type, called on its own
    dt_html,        \* the argument html: the fragments it holds
    dt_out,         \* what detect_challenge_type returned, "" before
    \* ---- ChallengeSolver._try_audio_challenge and the event loop around it
    au_pc,          \* the await the dispatcher is suspended in
    au_calls,       \* the calls of the handler so far
    listeners,      \* the 'response' listeners of the handler the page carries
    pending,        \* the audio responses the page has yet to deliver
    callbacks,      \* the on_audio_response calls suspended in response.body()
    \* ---- ChallengeSolver._try_video_challenge
    vd_pc,          \* where the handler is
    video,          \* the page: target frame, current frame, whether +1 is offered
    seeks_required, \* the local seeks_required
    seeks_done,     \* the local seeks_done
    seek_count,     \* the local seek_count
    nav_count       \* the iterations of the manual navigation so far

cpVars == <<cp_loc, cp_step, cp_out, cp_out2>>
fsVars == <<fs_dom, fs_click>>
runVars == <<solver, browser, pc, current_step, attempt, page, metric>>
stepVars == <<failed_codes, queue, codes, codes_to_try, ret, action,
              everFailed, prevFailed, ev>>

vars == <<cp_loc, cp_step, cp_out, cp_out2, fs_dom, fs_click,
          solver, browser, pc, current_step, attempt, failed_codes, queue,
          codes,
          codes_to_try, ret, action, page, metric, everFailed, prevFailed, ev,
          oracleAt, vcall, resets, handler, main_pc, keep_open, results_file,
          va_attempt, va_response, va_out, cl_page, cl_counts, cl_before,
          cl_clicked, cl_script, ex_page, ex_out, tried,
          challenges, started, us_pc, us_step, us_attempt, location, total_tin,
          total_tout, spent, dt_html, dt_out, au_pc, au_calls, listeners, pending,
          callbacks, vd_pc, video, seeks_required, seeks_done, seek_count, nav_count>>

oracleVars == <<oracleAt, vcall, resets>>
mainVars == <<main_pc, keep_open, results_file>>
vaVars == <<va_attempt, va_response, va_out>>
clVars == <<cl_page, cl_counts, cl_before, cl_clicked, cl_script>>
exVars == <<ex_page, ex_out>>
hdVars == <<tried>>
mtVars == <<challenges, started>>
usVars == <<us_pc, us_step, us_attempt, location, total_tin, total_tout, spent>>
dtVars == <<dt_html, dt_out>>
auVars == <<au_pc, au_calls, listeners, pending, callbacks>>
vdVars == <<vd_pc, video, seeks_required, seeks_done, seek_count, nav_count>>
lateVars == <<mtVars, usVars, dtVars, auVars, vdVars>>

(***************************************************************************)
(* Bounds of the model                                                     *)
(***************************************************************************)
MaxUrlLen == 4          \* longest location identifier, in tokens
MaxButtons == 2         \* most buttons of a page of SpecSubmit
StepCap == 2            \* steps of the session followed by Spec
ResetCap == 2           \* state resets of one step followed by SpecRun
MaxVisionAttempt == 11  \* largest attempt passed to analyze_page by SpecVision
MaxOverlays == 2        \* most overlays of a page of SpecClear
MaxPlaced == 2          \* most words placed in a page of SpecExtract
MaxFill == 15           \* the further visible tokens of a full page of SpecExtract

(***************************************************************************)
(* Program constants                                                       *)
(***************************************************************************)
TotalSteps == 30        \* range(1, 31) in run()
MaxAttempts == 15       \* max_attempts in _solve_step, range(15) in _solve_challenge
FinalStep == 30         \* step == 30 in _check_progress
ContainerDepth == 4     \* for (let i = 0; i < 4 && container; i++) in _fill_and_submit

Range(s) == {s[i] : i \in 1..Len(s)}

\* the sequences over S of length at most n
RECURSIVE SeqsUpTo(_, _)
SeqsUpTo(S, n) == IF n = 0 THEN {<<>>}
                  ELSE LET prev == SeqsUpTo(S, n - 1)
                       IN  prev \cup {Append(s, x) : s \in {t \in prev : Len(t) = n - 1}, x \in S}

(***************************************************************************)
(* Location identifiers.  A location is a sequence of tokens: the word     *)
(* "step" (in either case), the separators, decimal digits and the         *)
(* completion markers.  An absent location is Python's None.               *)
(***************************************************************************)
DigitTok == {"1", "3", "6", "7"}
UrlAlphabet == {"step", "STEP", "/", "-", "complete", "finish", "done"} \cup DigitTok

DigitVal(d) == CASE d = "0" -> 0 [] d = "1" -> 1 [] d = "2" -> 2 [] d = "3" -> 3
                 [] d = "4" -> 4 [] d = "5" -> 5 [] d = "6" -> 6 [] d = "7" -> 7
                 [] d = "8" -> 8 [] d = "9" -> 9

DigitChar(n) == CASE n = 0 -> "0" [] n = 1 -> "1" [] n = 2 -> "2" [] n = 3 -> "3"
                  [] n = 4 -> "4" [] n = 5 -> "5" [] n = 6 -> "6" [] n = 7 -> "7"
                  [] n = 8 -> "8" [] n = 9 -> "9"

IsDigit(t) == t \in {"0", "1", "2", "3", "4", "5", "6", "7", "8", "9"}

\* str(n) for n >= 0: the f-string interpolation {step + 1}
RECURSIVE Str(_)
Str(n) == IF n < 10 THEN <<DigitChar(n)>> ELSE Str(n \div 10) \o <<DigitChar(n % 10)>>

\* int(digits) for a non-empty run of digits
RECURSIVE ToInt(_)
ToInt(ds) == IF Len(ds) = 0 THEN 0
             ELSE 10 * ToInt(SubSeq(ds, 1, Len(ds) - 1)) + DigitVal(ds[Len(ds)])

\* str.lower(), token by token
LowerTok(t) == IF t = "STEP" THEN "step" ELSE t
Lower(u) == [i \in 1..Len(u) |-> LowerTok(u[i])]

\* pat in u  (Python substring test)
Contains(u, pat) ==
    \E i \in 1..(Len(u) - Len(pat) + 1) : SubSeq(u, i, i + Len(pat) - 1) = pat

\* the run of digits of u starting at position i (possibly empty)
RECURSIVE DigitRun(_, _)
DigitRun(u, i) == IF i <= Len(u) /\ IsDigit(u[i]) THEN <<u[i]>> \o DigitRun(u, i + 1)
                  ELSE <<>>

\* whether  step[/-]?(\d+)  matches at position i of u, and the digits it captures
MatchAt(u, i) ==
    /\ i <= Len(u)
    /\ u[i] = "step"
    /\ \/ DigitRun(u, i + 1) # <<>>
       \/ /\ i + 1 <= Len(u)
          /\ u[i + 1] \in {"/", "-"}
          /\ DigitRun(u, i + 2) # <<>>

GroupAt(u, i) == IF DigitRun(u, i + 1) # <<>> THEN DigitRun(u, i + 1)
                 ELSE DigitRun(u, i + 2)

\* re.search(r"step[/-]?(\d+)", u): the leftmost match, 0 when there is none
SearchStep(u) ==
    IF \E i \in 1..Len(u) : MatchAt(u, i)
    THEN CHOOSE i \in 1..Len(u) : MatchAt(u, i) /\ \A j \in 1..(i - 1) : ~MatchAt(u, j)
    ELSE 0

NoneLoc == [present |-> FALSE, toks |-> <<>>]
Loc(u) == [present |-> TRUE, toks |-> u]

\* outcome of a call: not yet called, returned a boolean, or raised
NotCalled == [called |-> FALSE, raised |-> FALSE, value |-> FALSE]
Returned(b) == [called |-> TRUE, raised |-> FALSE, value |-> b]
Raised == [called |-> TRUE, raised |-> TRUE, value |-> FALSE]

HasMarker(u) == Contains(u, <<"complete">>) \/ Contains(u, <<"finish">>)
                    \/ Contains(u, <<"done">>)

\* a variant of _check_progress comparing with >= instead of >
CheckProgressGe(loc, step) ==
    IF ~loc.present THEN Raised
    ELSE LET u == Lower(loc.toks)
             n == Str(step + 1)
             m == SearchStep(u)
         IN  IF \/ Contains(u, <<"step">> \o n)
                \/ Contains(u, <<"step", "-">> \o n)
                \/ Contains(u, <<"step", "/">> \o n)
             THEN Returned(TRUE)
             ELSE IF step = FinalStep /\ HasMarker(u) THEN Returned(TRUE)
             ELSE IF m # 0 /\ ToInt(GroupAt(u, m)) >= step THEN Returned(TRUE)
             ELSE Returned(FALSE)

\* AgentChallengeSolver._check_progress(url, step)
CheckProgress(loc, step) ==
    IF ~loc.present THEN Raised                 \* None.lower(): AttributeError
    ELSE LET u == Lower(loc.toks)               \* url_lower = url.lower()
             n == Str(step + 1)
             m == SearchStep(u)
         IN  IF \/ Contains(u, <<"step">> \o n)
                \/ Contains(u, <<"step", "-">> \o n)
                \/ Contains(u, <<"step", "/">> \o n)
             THEN Returned(TRUE)
             ELSE IF step = FinalStep /\ HasMarker(u) THEN Returned(TRUE)
             ELSE IF m # 0 /\ ToInt(GroupAt(u, m)) > step THEN Returned(TRUE)
             ELSE Returned(FALSE)

\* ChallengeSolver._check_progress(url, challenge_num): the same tests, one
\* if-statement each
CheckProgressClassic(loc, challenge_num) ==
    IF ~loc.present THEN Raised
    ELSE LET u == Lower(loc.toks)
             n == Str(challenge_num + 1)
             m == SearchStep(u)
         IN  IF Contains(u, <<"step">> \o n) THEN Returned(TRUE)
             ELSE IF Contains(u, <<"step", "-">> \o n) THEN Returned(TRUE)
             ELSE IF Contains(u, <<"step", "/">> \o n) THEN Returned(TRUE)
             ELSE IF challenge_num = FinalStep /\ HasMarker(u) THEN Returned(TRUE)
             ELSE IF m # 0
                  THEN (IF ToInt(GroupAt(u, m)) > challenge_num THEN Returned(TRUE)
                        ELSE Returned(FALSE))
             ELSE Returned(FALSE)

(***************************************************************************)
(* Button labels.  A label is a sequence of words; toLowerCase() and       *)
(* includes() work on the words.                                           *)
(***************************************************************************)
LowerWord(w) == CASE w = "Submit" -> "submit" [] w = "Code" -> "code"
                  [] w = "Continue" -> "continue" [] w = "Go" -> "go"
                  [] w = "Forward" -> "forward" [] w = "Verify" -> "verify"
                  [] w = "Proceed" -> "proceed" [] w = "Next" -> "next"
                  [] w = "Section" -> "section" [] w = "Click" -> "click"
                  [] w = "Here" -> "here" [] w = "OK" -> "ok"
                  [] w = "Reveal" -> "reveal"
                  [] OTHER -> w
LowerLabel(t) == [i \in 1..Len(t) |-> LowerWord(t[i])]

WordLen(w) == CASE w \in {"OK", "Go"} -> 2 [] w \in {"Code", "Next", "Here"} -> 4
                [] w = "Click" -> 5 [] w \in {"Submit", "Verify", "Reveal"} -> 6
                [] w \in {"Forward", "Section", "Proceed"} -> 7 [] w = "Continue" -> 8
                [] OTHER -> 1
\* t.length: the words and the blanks between them
RECURSIVE LabelLen(_)
LabelLen(t) == IF Len(t) = 0 THEN 0
               ELSE IF Len(t) = 1 THEN WordLen(t[1])
               ELSE WordLen(t[1]) + 1 + LabelLen(Tail(t))

\* TRAPS of _fill_and_submit
TRAPS == {<<"proceed">>, <<"continue">>, <<"next", "step">>, <<"next", "page">>,
          <<"next", "section">>, <<"move", "on">>, <<"go", "forward">>,
          <<"keep", "going">>, <<"advance">>, <<"continue", "reading">>,
          <<"continue", "journey">>, <<"click", "here">>, <<"proceed", "forward">>}

\* isTrap = (t) => TRAPS.some(w => t.toLowerCase().includes(w))
IsTrap(t) == \E w \in TRAPS : Contains(LowerLabel(t), w)

\* btn.type === 'submit' || t.includes('Submit') || t.includes('Go') || t === '→' || t.length <= 2
SubmitLike(b) == \/ b.kind = "submit"
                 \/ Contains(b.label, <<"Submit">>)
                 \/ Contains(b.label, <<"Go">>)
                 \/ b.label = <<"→">>
                 \/ LabelLen(b.label) <= 2

\* t === 'Submit' || t === 'Submit Code'
ExactSubmit(t) == t = <<"Submit">> \/ t = <<"Submit", "Code">>

Disabled(b) == b.kind = "disabled"

(***************************************************************************)
(* The page around the code input.  A button has a label, a kind (type     *)
(* submit, another type, or disabled) and a level: the number of the       *)
(* nearest ancestor container of the input that holds it, 0 for            *)
(* input.parentElement; a button of level ContainerDepth lies outside the  *)
(* containers the script walks.  btns is in document order.                *)
(***************************************************************************)
\* indices of the buttons of container i: container.querySelectorAll('button')
InContainer(dom, i) == {k \in 1..Len(dom.btns) : dom.btns[k].level <= i}

\* every enabled button of container i, decoy or not
EnabledButtons(dom, i) == {k \in InContainer(dom, i) : ~Disabled(dom.btns[k])}

\* safe = [...btns].filter(b => !b.disabled && !isTrap(...))
SafeButtons(dom, i) ==
    {k \in InContainer(dom, i) : ~Disabled(dom.btns[k]) /\ ~IsTrap(dom.btns[k].label)}

\* the first loop over btns without its !isTrap(t) test
SubmitLikeAnyLabel(dom, i) ==
    {k \in InContainer(dom, i) : ~Disabled(dom.btns[k]) /\ SubmitLike(dom.btns[k])}

\* the buttons the first loop over btns would click
SubmitLikeButtons(dom, i) ==
    {k \in InContainer(dom, i) :
        ~Disabled(dom.btns[k]) /\ ~IsTrap(dom.btns[k].label) /\ SubmitLike(dom.btns[k])}

\* the buttons the fallback loop over document.querySelectorAll('button') would click
FallbackButtons(dom) ==
    {k \in 1..Len(dom.btns) : ExactSubmit(dom.btns[k].label) /\ ~Disabled(dom.btns[k])}

Min(S) == CHOOSE x \in S : \A y \in S : x <= y

NoClick == [called |-> FALSE, idx |-> 0, rule |-> "none", level |-> 0, enter |-> FALSE]
Click(k, r, i) == [called |-> TRUE, idx |-> k, rule |-> r, level |-> i, enter |-> FALSE]
\* if not clicked: keyboard.press("Enter")
NoButton == [called |-> TRUE, idx |-> 0, rule |-> "none", level |-> 0, enter |-> TRUE]

FallbackClick(dom) ==
    IF FallbackButtons(dom) # {} THEN Click(Min(FallbackButtons(dom)), "fallback", ContainerDepth)
    ELSE NoButton

\* the walk up the parent containers, from container i
RECURSIVE SearchContainers(_, _)
SearchContainers(dom, i) ==
    IF i >= ContainerDepth THEN FallbackClick(dom)
    ELSE IF SubmitLikeButtons(dom, i) # {}
         THEN Click(Min(SubmitLikeButtons(dom, i)), "submit_like", i)
    ELSE IF Cardinality(SafeButtons(dom, i)) = 1
         THEN Click(Min(SafeButtons(dom, i)), "sole_safe", i)
    ELSE SearchContainers(dom, i + 1)

\* a variant that tries the global fallback before the containers
SubmitClickGlobalFirst(dom) ==
    IF ~dom.hasInput THEN NoButton
    ELSE IF FallbackButtons(dom) # {}
         THEN Click(Min(FallbackButtons(dom)), "fallback", ContainerDepth)
    ELSE SearchContainers(dom, 0)

\* the "Click submit (avoid trap buttons)" script of _fill_and_submit
SubmitClick(dom) ==
    IF ~dom.hasInput THEN NoButton            \* if (!input) return false
    ELSE SearchContainers(dom, 0)

(***************************************************************************)
(* SpecSubmit: the selection script on every page of the bound             *)
(***************************************************************************)
Labels == {<<"Submit">>, <<"Continue">>, <<"Go", "Forward">>, <<"Verify">>}
Kinds == {"submit", "button", "disabled"}
Buttons == [label : Labels, kind : Kinds, level : 0..ContainerDepth]
Doms(n) == {[hasInput |-> TRUE, btns |-> bs] : bs \in SeqsUpTo(Buttons, n)}
            \cup {[hasInput |-> FALSE, btns |-> bs] : bs \in SeqsUpTo(Buttons, 1)}

EmptyDom == [hasInput |-> FALSE, btns |-> <<>>]

FsInit == /\ fs_dom \in Doms(MaxButtons)
          /\ fs_click = NoClick

FsIdle == /\ fs_dom = EmptyDom
          /\ fs_click = NoClick

FsCall == /\ ~fs_click.called
          /\ fs_click' = SubmitClick(fs_dom)
          /\ UNCHANGED fs_dom


(***************************************************************************)
(* Claims about the submission routine                                     *)
(***************************************************************************)
FsClicked == fs_click.called /\ fs_click.idx # 0
FsTarget == fs_dom.btns[fs_click.idx]

\* C6: _fill_and_submit never clicks a control whose label matches the
\* decoy-phrase set: not under the type/label rule, not as the only enabled
\* control of an ancestor container, not in the global fallback; and it never
\* clicks a disabled control.
C6_NoDecoyClick ==
    FsClicked => ~IsTrap(FsTarget.label) /\ ~Disabled(FsTarget)

\* C6 witness: the only enabled control of the input's container is a decoy,
\* and the routine clicked another control
C6_Witness ==
    /\ FsClicked
    /\ \E k \in EnabledButtons(fs_dom, 0) :
            /\ EnabledButtons(fs_dom, 0) = {k}
            /\ IsTrap(fs_dom.btns[k].label)

\* what each rule of the stated precedence yields on the page
Rule1 == SubmitLikeButtons(fs_dom, 0)
Rule2 == IF Cardinality(SafeButtons(fs_dom, 0)) = 1 THEN SafeButtons(fs_dom, 0) ELSE {}
OuterLevels == {i \in 1..(ContainerDepth - 1) :
                    SubmitLikeButtons(fs_dom, i) # {} \/ Cardinality(SafeButtons(fs_dom, i)) = 1}
Rule3 == IF OuterLevels = {} THEN {}
         ELSE LET i == Min(OuterLevels)
              IN  IF SubmitLikeButtons(fs_dom, i) # {} THEN SubmitLikeButtons(fs_dom, i)
                  ELSE SafeButtons(fs_dom, i)
Rule4 == FallbackButtons(fs_dom)

Locations(n) == {NoneLoc} \cup {Loc(u) : u \in SeqsUpTo(UrlAlphabet, n)}
CpSteps == {6, FinalStep}

CpInit == /\ cp_loc \in Locations(MaxUrlLen)
          /\ cp_step \in CpSteps
          /\ cp_out = NotCalled
          /\ cp_out2 = NotCalled

CpIdle == /\ cp_loc = NoneLoc
          /\ cp_step = 0
          /\ cp_out = NotCalled
          /\ cp_out2 = NotCalled

CpCall == /\ ~cp_out.called
          /\ cp_out' = CheckProgress(cp_loc, cp_step)
          /\ cp_out2' = CheckProgressClassic(cp_loc, cp_step)
          /\ UNCHANGED <<cp_loc, cp_step>>


(***************************************************************************)
(* Claims about the progress oracle                                        *)
(***************************************************************************)
CpU == Lower(cp_loc.toks)
\* the number of the first step-number pattern of the location, -1 when none
FirstStepNumber == IF SearchStep(CpU) = 0 THEN -1
                   ELSE ToInt(GroupAt(CpU, SearchStep(CpU)))
\* some "step", "step-" or "step/" is directly followed by the digits of step+1
NextStepFollows ==
    \E i \in 1..Len(CpU) :
        /\ MatchAt(CpU, i)
        /\ LET g == GroupAt(CpU, i)
               n == Str(cp_step + 1)
           IN  Len(g) >= Len(n) /\ SubSeq(g, 1, Len(n)) = n
CpDone == cp_out.called /\ cp_loc.present

\* C4 as stated: _check_progress is true exactly when the step number embedded
\* in the location exceeds the current step, or the step is the final one and
\* a completion marker is present.
C4_ExactlyEmbeddedNumber ==
    CpDone => /\ ~cp_out.raised
              /\ cp_out.value <=> \/ FirstStepNumber > cp_step
                                  \/ cp_step = FinalStep /\ HasMarker(CpU)

\* C4 amended: true exactly when the first embedded step number exceeds the
\* step, or the digits of step+1 directly follow some "step", "step-" or
\* "step/" of the location, or the step is the final one and a completion
\* marker is present; both solvers agree; the four stated examples hold.
C4_ProgressRule ==
    /\ CpDone =>
          /\ ~cp_out.raised
          /\ cp_out2 = cp_out
          /\ cp_out.value <=> \/ FirstStepNumber > cp_step
                              \/ NextStepFollows
                              \/ cp_step = FinalStep /\ HasMarker(CpU)
    /\ (cp_out.called /\ cp_loc = Loc(<<"step", "/", "7">>) /\ cp_step = 6)
          => cp_out.value
    /\ (cp_out.called /\ cp_loc = Loc(<<"step", "/", "6">>) /\ cp_step = 6)
          => ~cp_out.value
    /\ (cp_out.called /\ cp_loc = Loc(<<"complete">>) /\ cp_step = FinalStep)
          => cp_out.value
    /\ (CpDone /\ cp_step < FinalStep /\ FirstStepNumber <= cp_step /\ ~NextStepFollows)
          => ~cp_out.value

\* C4 witness: a location whose first step number does not exceed the step,
\* on which the oracle still reports progress
C4_Witness ==
    /\ CpDone /\ cp_out.value
    /\ cp_step = 6 /\ FirstStepNumber \in 0..6 /\ NextStepFollows

\* C5 as stated: the progress oracle never raises; on an absent, empty or
\* step-number-free location it returns false.
C5_NeverRaises ==
    cp_out.called =>
        /\ ~cp_out.raised
        /\ ~cp_out2.raised
        /\ (~cp_loc.present \/ (FirstStepNumber = -1 /\ ~HasMarker(CpU))) => ~cp_out.value

(***************************************************************************)
(* The session.  The page answers every interaction by staying where it is *)
(* or by moving to its next step; the tokens it shows, the controls it     *)
(* offers and the oracle's answers are drawn from the sets below.          *)
(***************************************************************************)
Tokens == {"AB12CD", "XY34ZT"}

\* a list as extract_hidden_codes returns it: tokens, no duplicates
CodeLists == {s \in SeqsUpTo(Tokens, Cardinality(Tokens)) :
                 \A i, j \in 1..Len(s) : i # j => s[i] # s[j]}

\* sorted(..., key=lambda c: (c.isalpha(), c)) on tokens that hold digits
TokenRank(c) == CASE c = "AB12CD" -> 1 [] c = "XY34ZT" -> 2
SortCodes(S) == CHOOSE s \in CodeLists :
                   /\ Range(s) = S
                   /\ \A i, j \in 1..Len(s) : i < j => TokenRank(s[i]) < TokenRank(s[j])

\* s[:n]
Take(s, n) == SubSeq(s, 1, IF Len(s) < n THEN Len(s) ELSE n)

\* [c for c in s if c not in other]
RECURSIVE NotIn(_, _)
NotIn(s, other) == IF s = <<>> THEN <<>>
                   ELSE IF Head(s) \in Range(other) THEN NotIn(Tail(s), other)
                   ELSE <<Head(s)>> \o NotIn(Tail(s), other)

\* browser.get_url() while the page is on step n
PageUrl(n) == IF n > TotalSteps THEN Loc(<<"complete">>)
              ELSE Loc(<<"step", "/">> \o Str(n))

\* self._check_progress(await self.browser.get_url(), step)
Progress(sv, n, s) == IF sv = "classic" THEN CheckProgressClassic(PageUrl(n), s).value
                      ELSE CheckProgress(PageUrl(n), s).value

\* where an interaction can leave the page
Reacts(n, lim) == {n} \cup (IF n < lim THEN {n + 1} ELSE {})

PageCap == StepCap + 1

\* ---- metrics.challenges[step]
NoMetric == [num |-> 0, ended |-> FALSE, success |-> FALSE, error |-> ""]
StartChallenge(num) == [num |-> num, ended |-> FALSE, success |-> FALSE, error |-> ""]
\* end_challenge that records successes only
EndChallengeOnSuccess(m, num, success, error) ==
    IF m.num = num /\ success
    THEN [m EXCEPT !.ended = TRUE, !.success = success, !.error = error]
    ELSE m
EndChallenge(m, num, success, error) ==
    IF m.num = num
    THEN [m EXCEPT !.ended = TRUE, !.success = success, !.error = error]
    ELSE m

\* ---- labels of the controls the strategies click
ClickLabels == Labels \cup {<<"Reveal", "Code">>, <<"Submit", "&", "Continue">>,
                            <<"Click", "Here", "Reveal">>}

\* text.includes('reveal') || text.includes('accept')
RevealLabels == {l \in ClickLabels : Contains(LowerLabel(l), <<"reveal">>)
                                      \/ Contains(LowerLabel(l), <<"accept">>)}
\* btns.find(b => b.textContent.includes('Submit')) in _brute_force_radio
RadioSubmitLabels == {l \in ClickLabels : Contains(l, <<"Submit">>)}

\* TRAP_WORDS_JS of _try_trap_buttons
TRAP_WORDS_JS == TRAPS \cup {<<"next">>, <<"go">>, <<"submit", "code">>, <<"submit">>}
\* t.length < 40 && TRAPS.some(w => t === w || t.includes(w))
TrapButtonLabels == {l \in ClickLabels :
                        /\ LabelLen(l) < 40
                        /\ \E w \in TRAP_WORDS_JS : \/ LowerLabel(l) = w
                                                    \/ Contains(LowerLabel(l), w)}

\* TRAP_WORDS of _try_scroll_to_find_nav, matched on the whole label
TRAP_WORDS == {<<"proceed">>, <<"continue">>, <<"next", "step">>, <<"next", "page">>,
               <<"next", "section">>, <<"go", "to", "next">>, <<"click", "here">>,
               <<"go", "forward">>, <<"advance">>}
\* Phase 0a: if el['text'].lower().strip() in TRAP_WORDS: continue
Phase0aLabels == {l \in ClickLabels : LowerLabel(l) \notin TRAP_WORDS}

\* ---- what an action submitted and clicked
NoEv == [sub |-> "", again |-> FALSE, ok |-> FALSE, clicks |-> {}]
\* the clicks of strategy by on the controls labelled ls (<<>>: no control)
ClicksOf(by, ls) == {[by |-> by, decoy |-> IsTrap(l)] : l \in ls \ {<<>>}}
NoneOr(ls) == ls \cup {<<>>}
\* what strategy by can have clicked when it clicks at most one of labels
ClickChoices(by, labels) == {ClicksOf(by, {l}) : l \in NoneOr(labels)}
ClickEv(cs) == [NoEv EXCEPT !.clicks = cs]

\* ---- pages _fill_and_submit meets
PageDoms ==
    { [hasInput |-> TRUE,
       btns |-> << [label |-> <<"Submit">>, kind |-> "submit", level |-> 0] >>],
      [hasInput |-> TRUE,
       btns |-> << [label |-> <<"Continue">>, kind |-> "button", level |-> 0],
                   [label |-> <<"Submit">>, kind |-> "button", level |-> ContainerDepth] >>],
      [hasInput |-> TRUE,
       btns |-> << [label |-> <<"Go", "Forward">>, kind |-> "submit", level |-> 0],
                   [label |-> <<"Verify">>, kind |-> "button", level |-> 1] >>],
      [hasInput |-> TRUE,
       btns |-> << [label |-> <<"Continue">>, kind |-> "submit", level |-> 0] >>],
      [hasInput |-> FALSE, btns |-> <<>>] }

\* _fill_and_submit(code, step): type the code, click the chosen control or
\* press Enter, return url_after != url_before; any exception returns False
\* the control the selection script of _fill_and_submit clicks on page dom
SubmitClicks(dom) ==
    LET click == SubmitClick(dom)
    IN  IF click.idx # 0
        THEN {[by |-> "fill_and_submit", decoy |-> IsTrap(dom.btns[click.idx].label)]}
        ELSE {}
PageSubmitClicks == {SubmitClicks(dom) : dom \in PageDoms}

FillAndSubmit(n, lim) ==
    { [ok |-> (PageUrl(n2) # PageUrl(n)) /\ ~err, page |-> n2, clicks |-> cs] :
         n2 \in Reacts(n, lim), err \in BOOLEAN, cs \in PageSubmitClicks }

SubmitEv(code, failed, o) ==
    [sub |-> code, again |-> code \in failed, ok |-> o.ok, clicks |-> o.clicks]

\* ---- the oracle's answer: AgentAction.action_type and .code_found
NoAction == [type |-> "", code |-> ""]
OracleCodes == {"", "ab12cd ", "XY34ZT", "CODE"}
OracleActions == [type : {"click", "wait"}, code : OracleCodes]
\* action.code_found.upper().strip()
UpperStrip(c) == IF c = "ab12cd " THEN "AB12CD" ELSE c
CodeLen(c) == CASE c = "" -> 0 [] c = "CODE" -> 4 [] c = "ab12cd " -> 7 [] OTHER -> 6

\* ---- the calls of the vision analyzer made by the dispatchers
\* no call yet in this step
NoCall == [by |-> "", attempt |-> 0, passed |-> FALSE, codes |-> {}]
\* vision_call_num = attempt // 5
VisionCallNum(a) == a \div 5
\* an oracle consulted on every attempt after the first
VisionDueAlways(a) == a > 0
\* if attempt > 0 and attempt % 5 == 0
VisionDue(a) == a > 0 /\ a % 5 = 0
\* self.vision.analyze_page(screenshot, html[:5000], challenge_num, dom_codes,
\*                          attempt=vision_call_num): failed_codes keeps its default None
AnalyzePageCall(a) ==
    [by |-> "analyze_page", attempt |-> VisionCallNum(a), passed |-> FALSE, codes |-> {}]
\* self.vision.analyze(..., step=step, attempt=attempt, dom_codes=dom_codes,
\*                     failed_codes=failed_codes, history=action_history)
AnalyzeCall(a, failed) ==
    [by |-> "analyze", attempt |-> a, passed |-> TRUE, codes |-> Range(failed)]

(***************************************************************************)
(* run(): the loop over the steps                                          *)
(***************************************************************************)
\* a failure memory kept across the steps
KeepFailedCodes(old) == old
\* failed_codes: list[str] = []
FreshFailedCodes(old) == <<>>
\* failed_codes.append(code)
RecordFailure(failed, code) == Append(failed, code)
\* a loop that runs once more
AttemptsLeftInclusive(a) == a <= MaxAttempts
\* for attempt in range(max_attempts)
AttemptsLeft(a) == a < MaxAttempts

FixedSession == UNCHANGED <<cp_loc, cp_step, cp_out, cp_out2, fs_dom, fs_click,
                            solver, browser, current_step, prevFailed,
                            mainVars, vaVars, clVars, exVars, hdVars, lateVars>>
FixedRun == FixedSession /\ UNCHANGED handler
Fixed == FixedRun /\ UNCHANGED oracleVars

\* the locals of _solve_step other than failed_codes go out of scope
LocalsGone == /\ queue' = <<>>
              /\ codes' = <<>>
              /\ codes_to_try' = <<>>
              /\ ret' = ""
              /\ action' = NoAction

\* a return of success that leaves the record of the step as it is
ReturnTrueUnrecorded == /\ pc' = "run"
                        /\ LocalsGone
                        /\ UNCHANGED <<metric, attempt, failed_codes>>
\* self.metrics.end_challenge(step, True, total_tin, total_tout); return True
ReturnTrue == /\ pc' = "run"
              /\ metric' = EndChallenge(metric, current_step, TRUE, "")
              /\ LocalsGone
              /\ UNCHANGED <<attempt, failed_codes>>

\* continue: the next iteration of the attempt loop
NextAttempt == /\ pc' = "attempt"
               /\ attempt' = attempt + 1
               /\ queue' = <<>>
               /\ codes' = <<>>
               /\ codes_to_try' = <<>>
               /\ ret' = ""
               /\ action' = NoAction
               /\ UNCHANGED <<metric, failed_codes>>

\* the flow goes on inside the attempt
Goto(p) == /\ pc' = p
           /\ UNCHANGED <<metric, attempt>>

\* await self.browser.start(start_url); click START
RunStart ==
    /\ pc = "init"
    /\ browser' = "open"
    /\ page' = 1
    /\ pc' = "run"
    /\ UNCHANGED <<mainVars, vaVars, clVars, exVars, hdVars, lateVars, handler, oracleVars>>
    /\ UNCHANGED <<cp_loc, cp_step, cp_out, cp_out2, fs_dom, fs_click, solver, current_step,
                   attempt, failed_codes, queue, codes, codes_to_try, ret, action,
                   metric, everFailed, prevFailed, ev>>

\* for step in range(1, 31): start_challenge(step); _solve_step(step) begins
StartStep(lim) ==
    /\ pc = "run"
    /\ current_step < lim
    /\ current_step' = current_step + 1
    /\ metric' = StartChallenge(current_step + 1)
    /\ attempt' = 0
    /\ failed_codes' = FreshFailedCodes(failed_codes)
    /\ everFailed' = {}
    /\ prevFailed' = everFailed
    /\ ev' = NoEv
    /\ oracleAt' = {}
    /\ vcall' = NoCall
    /\ resets' = 0
    /\ pc' = "attempt"
    /\ UNCHANGED <<mainVars, vaVars, clVars, exVars, hdVars, lateVars, handler>>
    /\ UNCHANGED <<cp_loc, cp_step, cp_out, cp_out2, fs_dom, fs_click, solver, browser,
                   queue, codes, codes_to_try, ret, action, page>>

\* if not success: self.metrics.end_challenge(step, success=False, error=...)
StepFailed ==
    /\ pc = "failed"
    /\ metric' = EndChallenge(metric, current_step, FALSE,
                              IF solver = "classic" THEN "Failed to solve within max attempts"
                              ELSE "Max attempts reached")
    /\ pc' = "run"
    /\ ev' = NoEv
    /\ UNCHANGED <<attempt, failed_codes, queue, codes, codes_to_try, ret, action,
                   page, everFailed>>
    /\ Fixed

\* the loop is over; finally: await self.browser.stop(); print_summary()
RunFinish ==
    /\ pc = "run"
    /\ current_step = TotalSteps
    /\ browser' = "stopped"
    /\ pc' = "done"
    /\ UNCHANGED <<mainVars, vaVars, clVars, exVars, hdVars, lateVars, handler, oracleVars>>
    /\ UNCHANGED <<cp_loc, cp_step, cp_out, cp_out2, fs_dom, fs_click, solver, current_step,
                   attempt, failed_codes, queue, codes, codes_to_try, ret, action,
                   page, metric, everFailed, prevFailed, ev>>

(***************************************************************************)
(* _solve_step: the head of the attempt loop                               *)
(***************************************************************************)
\* a head that clears the popups before it looks at the location
AttemptHeadClearFirst(lim) ==
    /\ pc = "attempt"
    /\ AttemptsLeft(attempt)
    /\ \E n2 \in Reacts(page, lim), cs \in ClickChoices("clear_popups", ClickLabels) :
          /\ page' = n2
          /\ ev' = ClickEv(cs)
          /\ IF Progress(solver, n2, current_step)
             THEN ReturnTrue
             ELSE /\ pc' = IF solver = "classic" THEN "classic"
                           ELSE IF attempt = 0 THEN "fast" ELSE "agent"
                  /\ UNCHANGED <<metric, attempt, failed_codes, queue, codes, codes_to_try,
                                 ret, action>>
    /\ UNCHANGED everFailed
    /\ Fixed

\* 1. progress check; 2. _clear_popups (AgentChallengeSolver only)
AttemptHead(lim) ==
    /\ pc = "attempt"
    /\ AttemptsLeft(attempt)
    /\ IF Progress(solver, page, current_step)
       THEN /\ ReturnTrue
            /\ ev' = NoEv
            /\ UNCHANGED page
       ELSE /\ IF solver = "classic"
               THEN /\ pc' = "classic"
                    /\ ev' = NoEv
                    /\ UNCHANGED page
               ELSE /\ pc' = IF attempt = 0 THEN "fast" ELSE "agent"
                    /\ \E n2 \in Reacts(page, lim), cs \in ClickChoices("clear_popups", ClickLabels) :
                          /\ page' = n2
                          /\ ev' = ClickEv(cs)
            /\ UNCHANGED <<metric, attempt, failed_codes, queue, codes, codes_to_try,
                           ret, action>>
    /\ UNCHANGED everFailed
    /\ Fixed

\* the loop ran out: return False
Exhausted ==
    /\ pc = "attempt"
    /\ ~AttemptsLeft(attempt)
    /\ pc' = "failed"
    /\ LocalsGone
    /\ ev' = NoEv
    /\ UNCHANGED <<metric, attempt, failed_codes, page, everFailed>>
    /\ Fixed

\* for code in <list>: if code in failed_codes: continue
\*     if await self._fill_and_submit(code, step): end_challenge; return True
\*     failed_codes.append(code)
SubmitLoopTo(at, next, lim) ==
    /\ pc = at
    /\ IF queue = <<>>
       THEN /\ Goto(next)
            /\ ev' = NoEv
            /\ UNCHANGED <<queue, codes, codes_to_try, ret, action, failed_codes,
                           everFailed, page>>
       ELSE IF Head(queue) \in Range(failed_codes)
       THEN /\ queue' = Tail(queue)
            /\ ev' = NoEv
            /\ UNCHANGED <<pc, metric, attempt, codes, codes_to_try, ret, action,
                           failed_codes, everFailed, page>>
       ELSE \E o \in FillAndSubmit(page, lim) :
            /\ page' = o.page
            /\ ev' = SubmitEv(Head(queue), everFailed, o)
            /\ IF o.ok
               THEN /\ ReturnTrue
                    /\ UNCHANGED everFailed
               ELSE /\ failed_codes' = RecordFailure(failed_codes, Head(queue))
                    /\ everFailed' = everFailed \cup {Head(queue)}
                    /\ queue' = Tail(queue)
                    /\ UNCHANGED <<pc, metric, attempt, codes, codes_to_try, ret, action>>
    /\ UNCHANGED <<cp_loc, cp_step, cp_out, cp_out2, fs_dom, fs_click, solver, browser,
                   current_step, prevFailed, mainVars, vaVars, clVars, hdVars, lateVars, handler,
                   oracleVars>>

\* the loop on a page that moves no further than step PageCap
SubmitLoop(at, next) == SubmitLoopTo(at, next, PageCap) /\ UNCHANGED exVars

\* a strategy that clicks and then asks the progress oracle
\*     if <strategy>: end_challenge; return True
ClickThenCheck(by, labels, next) ==
    \E n2 \in Reacts(page, PageCap), cs \in ClickChoices(by, labels) :
        /\ page' = n2
        /\ ev' = ClickEv(cs)
        /\ IF cs # {} /\ Progress(solver, n2, current_step)
           THEN ReturnTrue
           ELSE /\ Goto(next)
                /\ UNCHANGED <<queue, codes, codes_to_try, ret, action, failed_codes>>

(***************************************************************************)
(* _solve_step, attempt 0: the fast path                                   *)
(***************************************************************************)
\* scroll, click the reveal controls, extract_hidden_codes(html)
FastReveal ==
    /\ pc = "fast"
    /\ \E n2 \in Reacts(page, PageCap), cs \in ClickChoices("fast_path", RevealLabels),
          dom_codes \in CodeLists :
          /\ page' = n2
          /\ ev' = ClickEv(cs)
          /\ codes' = dom_codes
          /\ queue' = dom_codes
    /\ Goto("f_sub1")
    /\ UNCHANGED <<codes_to_try, ret, action, failed_codes, everFailed>>
    /\ Fixed

FastSubmitDom == SubmitLoop("f_sub1", "f_radio")

\* if await self._brute_force_radio(step)
FastRadio ==
    /\ pc = "f_radio"
    /\ ClickThenCheck("brute_force_radio", RadioSubmitLabels, "f_math")
    /\ UNCHANGED everFailed
    /\ Fixed

\* keyboard sequence; math puzzle: math_code = await self._try_math_puzzle()
FastMath ==
    /\ pc = "f_math"
    /\ \E math_code \in Tokens \cup {""} :
          IF math_code # "" /\ math_code \notin Range(failed_codes)
          THEN \E o \in FillAndSubmit(page, PageCap) :
                  /\ page' = o.page
                  /\ ev' = SubmitEv(math_code, everFailed, o)
                  /\ IF o.ok
                     THEN /\ ReturnTrue
                          /\ UNCHANGED everFailed
                     ELSE /\ failed_codes' = RecordFailure(failed_codes, math_code)
                          /\ everFailed' = everFailed \cup {math_code}
                          /\ Goto("f_handlers")
                          /\ UNCHANGED <<queue, codes, codes_to_try, ret, action>>
          ELSE /\ Goto("f_handlers")
               /\ ev' = NoEv
               /\ UNCHANGED <<queue, codes, codes_to_try, ret, action, failed_codes,
                              everFailed, page>>
    /\ Fixed

\* capture, hover, "I Remember", audio, canvas, split parts, rotating code,
\* multi-tab, sequence and video handlers
FastHandlers ==
    /\ pc = "f_handlers"
    /\ \E n2 \in Reacts(page, PageCap), cs \in ClickChoices("handlers", ClickLabels) :
          /\ page' = n2
          /\ ev' = ClickEv(cs)
    /\ Goto("f_scroll")
    /\ UNCHANGED <<queue, codes, codes_to_try, ret, action, failed_codes, everFailed>>
    /\ Fixed

\* if is_scroll_challenge: all_codes = ...; _try_scroll_to_find_nav(all_codes)
FastScroll ==
    /\ pc = "f_scroll"
    /\ \E is_scroll_challenge \in BOOLEAN :
          IF is_scroll_challenge
          THEN /\ codes_to_try' = IF codes # <<>> THEN codes \o failed_codes
                                  ELSE failed_codes
               /\ ret' = "f_scroll"
               /\ Goto("s_phase0")
          ELSE /\ Goto("f_fresh")
               /\ UNCHANGED <<codes_to_try, ret>>
    /\ ev' = NoEv
    /\ UNCHANGED <<queue, codes, action, failed_codes, everFailed, page>>
    /\ Fixed

\* has_timer wait; fresh_codes = extract_hidden_codes(html_fresh)
FastFresh ==
    /\ pc = "f_fresh"
    /\ \E fresh_codes \in CodeLists : queue' = fresh_codes
    /\ Goto("f_sub2")
    /\ ev' = NoEv
    /\ UNCHANGED <<codes, codes_to_try, ret, action, failed_codes, everFailed, page>>
    /\ Fixed

FastSubmitFresh == SubmitLoop("f_sub2", "f_drag")

\* hide decoys, drag-and-drop, click complete/done/verify; re-extract
FastDrag ==
    /\ pc = "f_drag"
    /\ \E n2 \in Reacts(page, PageCap),
          cs \in ClickChoices("drag_and_drop", {<<"Verify">>}), dom_codes \in CodeLists :
          /\ page' = n2
          /\ ev' = ClickEv(cs)
          /\ codes' = dom_codes
          /\ queue' = dom_codes
    /\ Goto("f_sub3")
    /\ UNCHANGED <<codes_to_try, ret, action, failed_codes, everFailed>>
    /\ Fixed

FastSubmitAgain == SubmitLoop("f_sub3", "f_check")

\* progress check after the fast path; scroll-to-find when trap_count >= 8
FastCheck ==
    /\ pc = "f_check"
    /\ IF Progress(solver, page, current_step)
       THEN ReturnTrue
       ELSE \E many_traps \in BOOLEAN :
               IF failed_codes # <<>> /\ many_traps
               THEN /\ codes_to_try' = failed_codes
                    /\ ret' = "f_check"
                    /\ Goto("s_phase0")
                    /\ UNCHANGED <<queue, codes, action, failed_codes>>
               ELSE NextAttempt
    /\ ev' = NoEv
    /\ UNCHANGED <<everFailed, page>>
    /\ Fixed

(***************************************************************************)
(* _try_scroll_to_find_nav(codes_to_try, deep_scroll=True).  Every caller  *)
(* passes deep_scroll True.  The routine returns to its caller through     *)
(* pc "s_true" (return True) or "s_false" (return False).                  *)
(***************************************************************************)
ScrollPcs == {"s_phase0", "s_sub0", "s_clicks", "s_phase3", "s_sub3", "s_phase4",
              "s_sub4", "s_phase5"}

\* a phase that clicks controls and returns True once the progress oracle agrees
ScrollPhase(labels, next) ==
    \E n2 \in Reacts(page, PageCap), cs \in ClickChoices("scroll_to_find", labels) :
        /\ page' = n2
        /\ ev' = ClickEv(cs)
        /\ IF Progress(solver, n2, current_step) THEN Goto("s_true") ELSE Goto(next)

\* for code in <list>[:k]: if await self._fill_and_submit(code, ...): return True
ScrollSubmitLoop(at, next) ==
    /\ pc = at
    /\ IF queue = <<>>
       THEN /\ Goto(next)
            /\ ev' = NoEv
            /\ UNCHANGED <<queue, everFailed, page>>
       ELSE \E o \in FillAndSubmit(page, PageCap) :
            /\ page' = o.page
            /\ ev' = SubmitEv(Head(queue), everFailed, o)
            /\ IF o.ok
               THEN /\ Goto("s_true")
                    /\ queue' = <<>>
                    /\ UNCHANGED everFailed
               ELSE /\ everFailed' = everFailed \cup {Head(queue)}
                    /\ queue' = Tail(queue)
                    /\ UNCHANGED <<pc, metric, attempt>>
    /\ UNCHANGED <<codes, codes_to_try, ret, action, failed_codes>>
    /\ Fixed

\* Phase 0: wheel scrolling, auto-navigation check, clicks on the elements
\* injected meanwhile; p0_new = the accumulated tokens not in codes_to_try
ScrollPhase0 ==
    /\ pc = "s_phase0"
    /\ ScrollPhase(ClickLabels, "s_sub0")
    /\ \E phase0_codes \in SUBSET Tokens :
          queue' = IF pc' = "s_true" THEN <<>>
                   ELSE Take(SortCodes(phase0_codes \ Range(codes_to_try)), 5)
    /\ UNCHANGED <<codes, codes_to_try, ret, action, failed_codes, everFailed>>
    /\ Fixed

ScrollSubmitPhase0 == ScrollSubmitLoop("s_sub0", "s_clicks")

\* Phases 0a, 0b, 0c, 1, 2: scrollable containers, bottom scan, SAFE_WORDS
\* buttons, outliers
ScrollClicks ==
    /\ pc = "s_clicks"
    /\ \/ ScrollPhase(Phase0aLabels, "s_phase3")
       \/ ScrollPhase(ClickLabels, "s_phase3")
    /\ UNCHANGED <<queue, codes, codes_to_try, ret, action, failed_codes, everFailed>>
    /\ Fixed

\* Phase 3: click every button; Step D: the tokens of the page after the scroll
ScrollPhase3 ==
    /\ pc = "s_phase3"
    /\ ScrollPhase(ClickLabels, "s_sub3")
    /\ \E scroll_codes \in CodeLists :
          queue' = IF pc' = "s_true" THEN <<>>
                   ELSE Take(NotIn(scroll_codes, codes_to_try), 3)
    /\ UNCHANGED <<codes, codes_to_try, ret, action, failed_codes, everFailed>>
    /\ Fixed

ScrollSubmitStepD == ScrollSubmitLoop("s_sub3", "s_phase4")

\* Step E: Enter with codes_to_try[:3]; Phase 4: native clicks and the tokens
\* accumulated while scrolling
ScrollPhase4 ==
    /\ pc = "s_phase4"
    /\ ScrollPhase(ClickLabels, "s_sub4")
    /\ \E accumulated_codes \in SUBSET Tokens :
          queue' = IF pc' = "s_true" THEN <<>>
                   ELSE Take(SortCodes(accumulated_codes \ Range(codes_to_try)), 5)
    /\ UNCHANGED <<codes, codes_to_try, ret, action, failed_codes, everFailed>>
    /\ Fixed

ScrollSubmitPhase4 == ScrollSubmitLoop("s_sub4", "s_phase5")

\* Phases 5 to 7: hidden links and forms; then return False
ScrollPhase5 ==
    /\ pc = "s_phase5"
    /\ ScrollPhase(ClickLabels, "s_false")
    /\ UNCHANGED <<queue, codes, codes_to_try, ret, action, failed_codes, everFailed>>
    /\ Fixed

\* except Exception as e: return False
ScrollError ==
    /\ pc \in ScrollPcs
    /\ Goto("s_false")
    /\ queue' = <<>>
    /\ ev' = NoEv
    /\ UNCHANGED <<codes, codes_to_try, ret, action, failed_codes, everFailed, page>>
    /\ Fixed

\* back in _solve_step:
\*     if await self._try_scroll_to_find_nav(...):
\*         if self._check_progress(url, step): end_challenge; return True
ScrollReturn ==
    /\ pc \in {"s_true", "s_false"}
    /\ IF pc = "s_true" /\ Progress(solver, page, current_step)
       THEN ReturnTrue
       ELSE IF ret = "f_check"
       THEN NextAttempt
       ELSE /\ Goto(IF ret = "f_scroll" THEN "f_fresh" ELSE "a_rerun2")
            /\ codes_to_try' = <<>>
            /\ ret' = ""
            /\ UNCHANGED <<queue, codes, action, failed_codes>>
    /\ ev' = NoEv
    /\ UNCHANGED <<everFailed, page>>
    /\ Fixed

(***************************************************************************)
(* _solve_step, attempts 1 to 14: the oracle-driven path                   *)
(***************************************************************************)
\* 4. scroll, screenshot, extract_hidden_codes, self.vision.analyze(...)
AgentAsk ==
    /\ pc = "agent"
    /\ \E a \in OracleActions : action' = a
    /\ oracleAt' = oracleAt \cup {attempt}
    /\ vcall' = AnalyzeCall(attempt, failed_codes)
    /\ Goto("a_code")
    /\ ev' = NoEv
    /\ UNCHANGED <<queue, codes, codes_to_try, ret, failed_codes, everFailed, page, resets>>
    /\ FixedRun

\* a candidate of any length goes to the submission routine
SubmittableAnyLength(code, failed) == code \notin Range(failed)
\* if len(code) == 6 and code not in failed_codes
Submittable(code, failed) == CodeLen(code) = 6 /\ code \notin Range(failed)

\* 5. if action.code_found: code = action.code_found.upper().strip() ...
AgentCode ==
    /\ pc = "a_code"
    /\ LET code == UpperStrip(action.code)
       IN  IF action.code # "" /\ Submittable(code, failed_codes)
           THEN \E o \in FillAndSubmit(page, PageCap) :
                   /\ page' = o.page
                   /\ ev' = SubmitEv(code, everFailed, o)
                   /\ IF o.ok
                      THEN /\ ReturnTrue
                           /\ UNCHANGED everFailed
                      ELSE /\ failed_codes' = RecordFailure(failed_codes, code)
                           /\ everFailed' = everFailed \cup {code}
                           /\ Goto("a_exec")
                           /\ UNCHANGED <<queue, codes, codes_to_try, ret, action>>
           ELSE /\ Goto("a_exec")
                /\ ev' = NoEv
                /\ UNCHANGED <<queue, codes, codes_to_try, ret, action, failed_codes,
                               everFailed, page>>
    /\ Fixed

\* 6. _execute_action(action); 7. new_codes = extract_hidden_codes(html)
AgentExec ==
    /\ pc = "a_exec"
    /\ \E n2 \in Reacts(page, PageCap), new_codes \in CodeLists,
          cs \in (IF action.type = "click"
                  THEN ClickChoices("execute_action", ClickLabels) ELSE {{}}) :
          /\ page' = n2
          /\ ev' = ClickEv(cs)
          /\ queue' = new_codes
    /\ action' = NoAction
    /\ Goto("a_sub")
    /\ UNCHANGED <<codes, codes_to_try, ret, failed_codes, everFailed>>
    /\ Fixed

AgentSubmitNew == SubmitLoop("a_sub", "a_check")

\* 8. progress check after the action
AgentCheck ==
    /\ pc = "a_check"
    /\ IF Progress(solver, page, current_step)
       THEN ReturnTrue
       ELSE /\ Goto("a_trap")
            /\ UNCHANGED <<queue, codes, codes_to_try, ret, action, failed_codes>>
    /\ ev' = NoEv
    /\ UNCHANGED <<everFailed, page>>
    /\ Fixed

\* 9. if attempt >= 4 and attempt % 4 == 0 and failed_codes:
\*        if await self._try_trap_buttons(step, failed_codes): ... return True
AgentTrap ==
    /\ pc = "a_trap"
    /\ IF attempt >= 4 /\ attempt % 4 = 0 /\ failed_codes # <<>>
       THEN ClickThenCheck("try_trap_buttons", TrapButtonLabels, "a_rerun")
       ELSE /\ Goto("a_rerun")
            /\ ev' = NoEv
            /\ UNCHANGED <<queue, codes, codes_to_try, ret, action, failed_codes, page>>
    /\ UNCHANGED everFailed
    /\ Fixed

\* 10. if attempt >= 3 and attempt % 3 == 0: scroll-to-find again when the
\*     page asks for it
AgentRerun ==
    /\ pc = "a_rerun"
    /\ IF attempt >= 3 /\ attempt % 3 = 0
       THEN \E is_scroll_ch \in BOOLEAN :
               IF is_scroll_ch
               THEN /\ codes_to_try' = failed_codes
                    /\ ret' = "a_rerun"
                    /\ Goto("s_phase0")
               ELSE /\ Goto("a_rerun2")
                    /\ UNCHANGED <<codes_to_try, ret>>
       ELSE /\ Goto("a_modal")
            /\ UNCHANGED <<codes_to_try, ret>>
    /\ ev' = NoEv
    /\ UNCHANGED <<queue, codes, action, failed_codes, everFailed, page>>
    /\ Fixed

\* audio, delayed reveal, canvas, drag-and-drop; codes = extract_hidden_codes(html)
AgentRerunTail ==
    /\ pc = "a_rerun2"
    /\ \E n2 \in Reacts(page, PageCap), cs \in ClickChoices("handlers", {<<"Verify">>}),
          dom_codes \in CodeLists :
          /\ page' = n2
          /\ ev' = ClickEv(cs)
          /\ queue' = dom_codes
    /\ Goto("a_resub")
    /\ UNCHANGED <<codes, codes_to_try, ret, action, failed_codes, everFailed>>
    /\ Fixed

AgentResubmit == SubmitLoop("a_resub", "a_modal")

\* 11. if attempt == 5: _hide_stuck_modals(); if hidden > 0: _brute_force_radio
AgentModal ==
    /\ pc = "a_modal"
    /\ \E n2 \in (IF attempt = 5 THEN Reacts(page, PageCap) ELSE {page}),
          cs \in (IF attempt = 5
                  THEN ClickChoices("brute_force_radio", RadioSubmitLabels) ELSE {{}}) :
          /\ page' = n2
          /\ ev' = ClickEv(cs)
          /\ IF cs # {} /\ Progress(solver, n2, current_step)
             THEN ReturnTrue
             ELSE NextAttempt
    /\ UNCHANGED everFailed
    /\ Fixed

(***************************************************************************)
(* The attempt as run() sees it: whatever the strategies did, the attempt  *)
(* returned True after end_challenge(step, True, ...) or fell through.     *)
(* AgentChallengeSolver calls the oracle first thing in every attempt after*)
(* the fast path.  ChallengeSolver calls it last, when the attempt is due  *)
(* and neither a return nor a continue came first; its math-puzzle handler *)
(* navigates away and back whenever the puzzle page has no number input    *)
(* (followed up to ResetCap times in a step).                              *)
(***************************************************************************)
AttemptBody ==
    /\ pc \in {"fast", "agent", "classic"}
    /\ \E n2 \in Reacts(page, TotalSteps + 1), passed \in BOOLEAN,
          reached \in BOOLEAN,
          no_number_input \in (IF resets < ResetCap THEN BOOLEAN ELSE {FALSE}) :
          /\ page' = n2
          /\ IF passed THEN ReturnTrue ELSE NextAttempt
          /\ CASE pc = "agent" ->
                    /\ oracleAt' = oracleAt \cup {attempt}
                    /\ vcall' = AnalyzeCall(attempt, failed_codes)
                    /\ UNCHANGED resets
               [] pc = "classic" ->
                    /\ IF VisionDue(attempt) /\ ~passed /\ reached
                       THEN /\ oracleAt' = oracleAt \cup {attempt}
                            /\ vcall' = AnalyzePageCall(attempt)
                       ELSE UNCHANGED <<oracleAt, vcall>>
                    /\ resets' = IF no_number_input THEN resets + 1 ELSE resets
               [] OTHER -> UNCHANGED oracleVars
    /\ ev' = NoEv
    /\ UNCHANGED everFailed
    /\ FixedRun

(***************************************************************************)
(* ChallengeSolver._solve_challenge, handler by handler: one attempt runs  *)
(* the special-challenge script, the radio selection, the timer wait, the  *)
(* sixteen archetype handlers in their order, the brute-force click, the   *)
(* extraction and submission, the fallback strategies and the vision call. *)
(* The keyword test that triggers a handler and the element the handler    *)
(* acts on are independent facts of the page.  The history variable        *)
(* handler remembers what the dispatcher owes to the last positive report  *)
(* of a handler (an extraction, a progress check) and what was still owed  *)
(* when the next handler started.                                          *)
(***************************************************************************)
\* const result = {handled: false, modal_closed: false, ..., has_timer: false}
NoSpecial == [handled |-> FALSE, modal |-> FALSE, timer |-> FALSE]
\* every branch that sets modal_closed, modal_scrolled or has_timer sets handled
Specials == {s \in [handled : BOOLEAN, modal : BOOLEAN, timer : BOOLEAN] :
                (s.modal \/ s.timer) => s.handled}

\* what a handler returned (handled) and what it did to the page (acts)
Out(handled, acts) == [handled |-> handled, acts |-> acts]

\* keys = key_pattern.findall(html); if not keys: return False; press each key
TryKeyboardSequence(keys, err) ==
    IF err \/ ~keys THEN Out(FALSE, {}) ELSE Out(TRUE, {"press"})

\* for attempt in range(5): click the Capture button if there is one;
\* return True after the loop whether or not anything was clicked
TryTimingChallenge(capture, err) ==
    IF err THEN Out(FALSE, {}) ELSE Out(TRUE, IF capture THEN {"click"} ELSE {})

\* for attempt in range(15): click Capture when hasBtn; return True after the loop
TryRotatingCodeChallenge(capture, err) ==
    IF err THEN Out(FALSE, {}) ELSE Out(TRUE, IF capture THEN {"click"} ELSE {})

\* for click_round in range(10): click the parts, or with none clicked
\* window.scrollBy(0, 400); return True after the loop
TrySplitPartsChallenge(parts, err) ==
    IF err THEN Out(FALSE, {}) ELSE Out(TRUE, IF parts THEN {"click"} ELSE {"scroll"})

\* no input[type=number]: history.pushState to '/' and back; if not expr: return False
TryMathPuzzleChallenge(number_input, err) ==
    IF err THEN Out(FALSE, {})
    ELSE IF number_input THEN Out(TRUE, {"fill", "click"}) ELSE Out(FALSE, {"reset"})

\* the handlers in the order _solve_challenge tries them
ArchetypeHandlers ==
    <<"keyboard_sequence", "drag_and_drop", "hover", "canvas", "timing", "audio",
      "split_parts", "rotating_code", "multi_tab", "sequence", "math_puzzle", "encoded",
      "shadow_dom", "iframe", "service_worker", "video">>
HandlerNames == Range(ArchetypeHandlers)

\* the handlers that look for their element first: if not found: return False
ReturnFalseWithoutElement == {"drag_and_drop", "hover", "canvas", "audio", "encoded",
                              "service_worker", "video"}
\* return final > 0; return len(decoded_codes) > 0
MayComeBackEmpty == {"drag_and_drop", "encoded"}

\* what handler h does on a page that has (present) or lacks its element
TryHandler(h, present, empty, err) ==
    CASE h = "keyboard_sequence" -> TryKeyboardSequence(present, err)
      [] h = "timing" -> TryTimingChallenge(present, err)
      [] h = "rotating_code" -> TryRotatingCodeChallenge(present, err)
      [] h = "split_parts" -> TrySplitPartsChallenge(present, err)
      [] h = "math_puzzle" -> TryMathPuzzleChallenge(present, err)
      [] h \in ReturnFalseWithoutElement ->
            IF err \/ ~present THEN Out(FALSE, {})
            ELSE Out(~(empty /\ h \in MayComeBackEmpty), {"click"})
      [] OTHER -> IF err THEN Out(FALSE, {})
                  ELSE Out(TRUE, IF present THEN {"click"} ELSE {})

\* what handler h can do on a page that has (present) or lacks its element
Outcomes(h) == { [present |-> present, out |-> TryHandler(h, present, empty, err)] :
                    present \in BOOLEAN, empty \in BOOLEAN, err \in BOOLEAN }

\* the handler after h, "brute" after the last
NextHandler(h) ==
    LET i == CHOOSE k \in 1..Len(ArchetypeHandlers) : ArchetypeHandlers[k] = h
    IN  IF i < Len(ArchetypeHandlers) THEN ArchetypeHandlers[i + 1] ELSE "brute"

\* no handler ran yet in this attempt
NoHandler == [owed |-> {}, skipped |-> {}]
\* a handler starts: what was owed to the last positive report is now skipped;
\* owed is what the dispatcher owes when the handler and its follow-up are over
Ran(before, owed) == [owed |-> owed, skipped |-> before.owed]
\* extract_hidden_codes ran; the progress oracle was asked
Extracted(h) == [h EXCEPT !.owed = @ \ {"extract"}]
Checked(h) == [h EXCEPT !.owed = @ \ {"check"}]

\* where the page on step n is after a call that did acts to it
Moves(n, acts) == IF acts = {} THEN {n} ELSE Reacts(n, PageCap)

ClassicFixed == /\ FixedSession
                /\ ev' = NoEv
                /\ UNCHANGED <<failed_codes, everFailed>>
ClassicGoto(p) == /\ Goto(p)
                  /\ UNCHANGED <<queue, codes, codes_to_try, ret, action>>

\* what _try_radio_selection can do: return any_clicked (True at once when the
\* location changed after a submission)
RadioOutcomes == { Out(any_clicked, IF any_clicked THEN {"click"} ELSE {}) :
                      any_clicked \in BOOLEAN }

\* if special.get('has_timer') and ... and attempt < 3: sleep; extract; fill; continue
\* (h: the history after the radio selection, n: where the page is)
TimerWait(s, h, n) ==
    IF s.timer /\ attempt < 3
    THEN \E found \in BOOLEAN, filled \in BOOLEAN :
         \E n2 \in Moves(n, IF found THEN {"fill"} ELSE {}) :
            /\ page' = n2
            /\ handler' = [h EXCEPT !.owed = {}]
            /\ IF found /\ filled /\ Progress(solver, n2, current_step)
               THEN ReturnTrue
               ELSE NextAttempt
    ELSE /\ page' = n
         /\ handler' = h
         /\ ClassicGoto(Head(ArchetypeHandlers))

\* special = await self._handle_special_challenges()
\* if special.get('modal_scrolled') or special.get('modal_closed'):
\*     radio_result = await self._try_radio_selection()
\*     if radio_result: if self._check_progress(url, challenge_num): return True
\* then the timer wait
ClassicSpecial ==
    /\ pc = "classic"
    /\ \E s \in Specials :
       \E n1 \in Moves(page, IF s.handled THEN {"click"} ELSE {}) :
          IF s.modal
          THEN \E radio \in RadioOutcomes :
               \E n2 \in Moves(n1, radio.acts) :
                  IF radio.handled /\ Progress(solver, n2, current_step)
                  THEN /\ page' = n2
                       /\ handler' = Ran(NoHandler, {})
                       /\ ReturnTrue
                  ELSE TimerWait(s, Ran(NoHandler, IF radio.handled THEN {"extract"} ELSE {}), n2)
          ELSE TimerWait(s, NoHandler, n1)
    /\ UNCHANGED oracleVars
    /\ ClassicFixed

\* if <keywords of h in html>: r = await self._try_h()
\*     if r: dom_codes = extract_hidden_codes(html)
\*           if dom_codes: filled = await self._try_fill_code(dom_codes)
\*                         if filled: if self._check_progress(...): return True
ClassicHandler(h) ==
    /\ pc = h
    /\ \E trigger \in BOOLEAN :
          IF ~trigger
          THEN /\ ClassicGoto(NextHandler(h))
               /\ UNCHANGED <<page, handler, resets>>
          ELSE \E o \in Outcomes(h) :
               /\ "reset" \in o.out.acts => resets < ResetCap
               /\ resets' = IF "reset" \in o.out.acts THEN resets + 1 ELSE resets
               /\ \E n2 \in Moves(page, o.out.acts) :
                    IF ~o.out.handled
                    THEN /\ page' = n2
                         /\ handler' = Ran(handler, handler.owed)
                         /\ ClassicGoto(NextHandler(h))
                    ELSE \E found \in BOOLEAN, filled \in BOOLEAN :
                         \E n3 \in Moves(n2, IF found THEN {"fill"} ELSE {}) :
                            /\ page' = n3
                            /\ IF found /\ filled
                               THEN /\ handler' = Ran(handler, {})
                                    /\ IF Progress(solver, n3, current_step)
                                       THEN ReturnTrue
                                       ELSE ClassicGoto(NextHandler(h))
                               ELSE /\ handler' = Ran(handler, {"check"})
                                    /\ ClassicGoto(NextHandler(h))
    /\ UNCHANGED <<oracleAt, vcall>>
    /\ ClassicFixed

\* scroll; clicks = await self._brute_force_click(); progress check
ClassicBruteForce ==
    /\ pc = "brute"
    /\ \E n2 \in Reacts(page, PageCap) :
          /\ page' = n2
          /\ IF Progress(solver, n2, current_step)
             THEN ReturnTrue
             ELSE ClassicGoto("extract")
    /\ handler' = Checked(handler)
    /\ UNCHANGED oracleVars
    /\ ClassicFixed

\* dom_codes = extract_hidden_codes(html); if dom_codes: _try_fill_code(dom_codes)
\* else: if len(html) < 1000: continue;  then the progress check
ClassicExtract ==
    /\ pc = "extract"
    /\ \E dom_codes \in CodeLists, blank \in BOOLEAN :
       \E n2 \in Moves(page, IF dom_codes # <<>> THEN {"fill"} ELSE {}) :
          /\ page' = n2
          /\ IF dom_codes = <<>> /\ blank
             THEN /\ NextAttempt
                  /\ handler' = Extracted(handler)
             ELSE /\ handler' = Checked(Extracted(handler))
                  /\ IF Progress(solver, n2, current_step)
                     THEN ReturnTrue
                     ELSE /\ Goto("fallback")
                          /\ codes' = dom_codes
                          /\ UNCHANGED <<queue, codes_to_try, ret, action>>
    /\ UNCHANGED oracleVars
    /\ ClassicFixed

\* if attempt >= 3 and not dom_codes:
\*     fallback_result = await self._try_fallback_strategies(html, attempt)
\*     if fallback_result: progress check; extract; fill; if filled: progress check
ClassicFallback ==
    /\ pc = "fallback"
    /\ IF attempt >= 3 /\ codes = <<>>
       THEN \E fallback_result \in BOOLEAN :
            \E n2 \in Moves(page, IF fallback_result THEN {"click"} ELSE {}) :
               IF ~fallback_result
               THEN /\ page' = n2
                    /\ handler' = Ran(handler, handler.owed)
                    /\ Goto("vision")
                    /\ UNCHANGED <<codes, queue, codes_to_try, ret, action>>
               ELSE IF Progress(solver, n2, current_step)
               THEN /\ page' = n2
                    /\ handler' = Ran(handler, {})
                    /\ ReturnTrue
               ELSE \E dom_codes \in CodeLists, filled \in BOOLEAN :
                    \E n3 \in Moves(n2, IF dom_codes # <<>> THEN {"fill"} ELSE {}) :
                       /\ page' = n3
                       /\ handler' = Ran(handler, {})
                       /\ IF dom_codes # <<>> /\ filled /\ Progress(solver, n3, current_step)
                          THEN ReturnTrue
                          ELSE /\ Goto("vision")
                               /\ codes' = dom_codes
                               /\ UNCHANGED <<queue, codes_to_try, ret, action>>
       ELSE /\ ClassicGoto("vision")
            /\ UNCHANGED <<page, handler>>
    /\ UNCHANGED oracleVars
    /\ ClassicFixed

\* if attempt > 0 and attempt % 5 == 0: action = self.vision.analyze_page(...)
\*     if action.code_found: _try_fill_code([code]);  _execute_action(action)
\* every exception of the block is caught; then the next attempt
ClassicVision ==
    /\ pc = "vision"
    /\ IF VisionDue(attempt)
       THEN \E reached \in BOOLEAN :
               IF reached
               THEN /\ oracleAt' = oracleAt \cup {attempt}
                    /\ vcall' = AnalyzePageCall(attempt)
                    /\ page' \in Reacts(page, PageCap)
               ELSE UNCHANGED <<oracleAt, vcall, page>>
       ELSE UNCHANGED <<oracleAt, vcall, page>>
    /\ NextAttempt
    /\ UNCHANGED <<handler, resets>>
    /\ ClassicFixed

(***************************************************************************)
(* An archetype handler called on its own, on a page that has or lacks the *)
(* element it acts on.                                                     *)
(***************************************************************************)
NotTried == [name |-> "", present |-> FALSE, empty |-> FALSE, err |-> FALSE,
             called |-> FALSE, out |-> Out(FALSE, {})]
HdInit == tried \in { [NotTried EXCEPT !.name = h, !.present = p, !.empty = e, !.err = x] :
                         h \in HandlerNames, p \in BOOLEAN, e \in BOOLEAN, x \in BOOLEAN }
HdIdle == tried = NotTried
\* r = await self._try_<name>()
HdCall == /\ ~tried.called
          /\ tried' = [tried EXCEPT !.called = TRUE,
                                    !.out = TryHandler(tried.name, tried.present,
                                                       tried.empty, tried.err)]

(***************************************************************************)
(* main(): run() under asyncio.wait_for, and what follows it.  The budget  *)
(* can expire at any await of run() inside its try block; an unguarded     *)
(* call of the page or of the oracle can raise in the body of an attempt.  *)
(***************************************************************************)
\* CancelledError or another exception leaves _solve_step: its locals (and
\* what the model remembers of the attempts of the step) are gone
Unwound ==
    /\ LocalsGone
    /\ attempt' = 0
    /\ failed_codes' = <<>>
    /\ everFailed' = {}
    /\ ev' = NoEv
    /\ oracleAt' = {}
    /\ vcall' = NoCall
    /\ resets' = 0
    /\ UNCHANGED <<page, metric>>
    /\ FixedRun

\* asyncio.wait_for(..., timeout=MAX_TIME_SECONDS) cancels run() at an await
Cancel ==
    /\ main_pc = "wait_for"
    /\ pc \in {"run", "attempt", "fast", "agent", "classic", "failed"}
    /\ pc' = "cancelling"
    /\ Unwound

\* a cancellation that unwinds run() without its finally block
CancelledNoFinally ==
    /\ pc = "cancelling"
    /\ pc' = "cancelled"
    /\ main_pc' = "timeout"
    /\ UNCHANGED <<cp_loc, cp_step, cp_out, cp_out2, fs_dom, fs_click, solver, browser,
                   current_step, attempt, failed_codes, queue, codes, codes_to_try, ret,
                   action, page, metric, everFailed, prevFailed, ev, oracleVars,
                   keep_open, results_file, vaVars, clVars, exVars, hdVars, lateVars, handler>>
\* finally: await self.browser.stop(); self.metrics.print_summary()
\* and wait_for raises TimeoutError in main()
FinallyCancelled ==
    /\ pc = "cancelling"
    /\ browser' = "stopped"
    /\ page' = 0
    /\ pc' = "cancelled"
    /\ main_pc' = "timeout"
    /\ UNCHANGED <<cp_loc, cp_step, cp_out, cp_out2, fs_dom, fs_click, solver,
                   current_step, attempt, failed_codes, queue, codes, codes_to_try, ret,
                   action, metric, everFailed, prevFailed, ev, oracleVars,
                   keep_open, results_file, vaVars, clVars, exVars, hdVars, lateVars, handler>>

\* page.evaluate, get_html, screenshot or vision.analyze raises outside any try
Raise ==
    /\ main_pc = "wait_for"
    /\ pc \in {"fast", "agent", "classic"}
    /\ pc' = "raising"
    /\ Unwound

\* run() has no except clause: finally: browser.stop(); print_summary(), and
\* the exception leaves run(), wait_for and main(), which catches TimeoutError only
FinallyRaised ==
    /\ pc = "raising"
    /\ browser' = "stopped"
    /\ page' = 0
    /\ pc' = "raised"
    /\ main_pc' = "crashed"
    /\ UNCHANGED <<cp_loc, cp_step, cp_out, cp_out2, fs_dom, fs_click, solver,
                   current_step, attempt, failed_codes, queue, codes, codes_to_try, ret,
                   action, metric, everFailed, prevFailed, ev, oracleVars,
                   keep_open, results_file, vaVars, clVars, exVars, hdVars, lateVars, handler>>

MainFixed == UNCHANGED <<cp_loc, cp_step, cp_out, cp_out2, fs_dom, fs_click, solver,
                         pc, current_step, attempt, failed_codes, queue, codes,
                         codes_to_try, ret, action, page, metric, everFailed, prevFailed,
                         ev, oracleVars, keep_open, vaVars, clVars, exVars, hdVars, lateVars, handler>>

\* results = await asyncio.wait_for(solver.run(...), ...) returned the summary
MainReturn ==
    /\ main_pc = "wait_for"
    /\ pc = "done"
    /\ main_pc' = "write"
    /\ UNCHANGED <<browser, results_file>>
    /\ MainFixed

\* except asyncio.TimeoutError: results = solver.metrics.get_summary();
\* print_summary(); if keep_open: ... run_in_executor(None, input)
MainTimeout ==
    /\ main_pc = "timeout"
    /\ main_pc' = IF keep_open THEN "input" ELSE "write"
    /\ UNCHANGED <<browser, results_file>>
    /\ MainFixed

\* the operator presses Enter (or stdin ends); finally: solver.browser.stop()
PressEnter ==
    /\ main_pc = "input"
    /\ browser' = "stopped"
    /\ main_pc' = "write"
    /\ UNCHANGED results_file
    /\ MainFixed

\* with open(results_file, "w") as f: json.dump(results, f, indent=2)
\* the summary holds one entry for every step started
WriteResults ==
    /\ main_pc = "write"
    /\ results_file' = current_step
    /\ main_pc' = "saved"
    /\ UNCHANGED browser
    /\ MainFixed

(***************************************************************************)
(* _clear_popups and _handle_special_challenges.  The scripts visit every  *)
(* element matching '.fixed', [class*="absolute"] or [class*="z-"] and     *)
(* tell the overlays apart by their text; an overlay of the model matches  *)
(* one rule (or none).  A click on a working, enabled button makes the     *)
(* application take the overlay out of the document; hide(el) and the      *)
(* backdrop rule only set the style of the element, which stays.           *)
(***************************************************************************)
OverlayKinds == {"real_dismiss", "all_fake", "fake_warning", "cookie", "offer",
                 "dismiss_modal", "wrong_button", "backdrop", "plain"}
\* the buttons of an overlay: their text, whether they are disabled, and
\* whether the application dismisses the overlay when they are clicked
DismissButton == [label |-> "Dismiss", disabled |-> FALSE, works |-> TRUE]
DisabledButton == [label |-> "Dismiss", disabled |-> TRUE, works |-> FALSE]
FakeButton == [label |-> "Close (Fake)", disabled |-> FALSE, works |-> FALSE]
AcceptButton == [label |-> "Accept", disabled |-> FALSE, works |-> TRUE]
IconButton == [label |-> "", disabled |-> FALSE, works |-> TRUE]
OverlayButtons == { <<>>, <<DismissButton>>, <<FakeButton, DismissButton>>,
                    <<FakeButton, DisabledButton>>, <<AcceptButton>>, <<IconButton>> }

\* (btn.textContent || '').trim().toLowerCase()
LowerText(l) == CASE l = "Dismiss" -> "dismiss" [] l = "Close (Fake)" -> "close (fake)"
                  [] l = "Accept" -> "accept" [] OTHER -> l
\* bt.toLowerCase().includes('fake')
IncludesFake(l) == LowerText(l) = "close (fake)"
\* bt.length > 0 && bt.length < 30
LengthFits(l) == l # ""

\* the buttons the rules of _clear_popups call click() on
\* the first rule: the buttons that are not labelled as fake
Unmarked(o) == { i \in 1..Len(o.btns) :
                   ~IncludesFake(o.btns[i].label) /\ LengthFits(o.btns[i].label) }
\* [...el.querySelectorAll('button')].find(b => b.textContent.includes('Accept'))
AcceptIndex(o) == { i \in 1..Len(o.btns) :
                      /\ o.btns[i].label = "Accept"
                      /\ \A j \in 1..(i - 1) : o.btns[j].label # "Accept" }
\* el.querySelector('button')
FirstIndex(o) == IF o.btns = <<>> THEN {} ELSE {1}
Clicks(o) == CASE o.kind = "real_dismiss" -> Unmarked(o)
               [] o.kind = "cookie" -> AcceptIndex(o)
               [] o.kind = "offer" -> 1..Len(o.btns)
               [] o.kind \in {"dismiss_modal", "wrong_button"} -> FirstIndex(o)
               [] OTHER -> {}
\* _handle_special_challenges has the same rules but none for the cookie banner
SpecialClicks(o) == IF o.kind = "cookie" THEN {} ELSE Clicks(o)
\* the rules that call hide(el)
Hides(o) == o.kind \in {"all_fake", "fake_warning", "offer"}
\* el.style.pointerEvents = 'none' of the backdrop rule
Disables(o) == o.kind = "backdrop"
\* cleared++ of the rule the overlay matches
Cleared(o) == CASE o.kind = "real_dismiss" -> Cardinality(Unmarked(o))
                [] o.kind \in {"cookie", "dismiss_modal", "wrong_button"} -> Cardinality(Clicks(o))
                [] o.kind = "plain" -> 0
                [] OTHER -> 1
\* result.handled = true
Handled(o) == CASE o.kind = "plain" -> FALSE
                [] o.kind \in {"all_fake", "fake_warning", "offer", "backdrop"} -> TRUE
                [] OTHER -> SpecialClicks(o) # {}
\* btn.click(): the application dismisses the overlay of a working button
Dismissed(o, clicked) == \E i \in clicked : o.btns[i].works /\ ~o.btns[i].disabled
\* an overlay that hide(el) takes out of the document
AfterRemoving(o, clicked) ==
    IF Dismissed(o, clicked) \/ Hides(o) THEN <<>>
    ELSE <<[o EXCEPT !.inert = @ \/ Disables(o)]>>
\* the overlay after the script ran
After(o, clicked) ==
    IF Dismissed(o, clicked) THEN <<>>
    ELSE <<[o EXCEPT !.hidden = @ \/ Hides(o), !.inert = @ \/ Hides(o) \/ Disables(o)]>>
\* the buttons of o the script clicked
ClickedOf(o, clicked) == { [id |-> o.id, kind |-> o.kind, btn |-> o.btns[i]] : i \in clicked }
\* return await self.browser.page.evaluate(...): the count, the page left, the clicks
RECURSIVE ClearPopups(_)
ClearPopups(p) ==
    IF p = <<>> THEN [count |-> 0, page |-> <<>>, clicked |-> {}]
    ELSE LET r == ClearPopups(Tail(p))
             o == Head(p)
         IN  [count |-> Cleared(o) + r.count,
              page |-> After(o, Clicks(o)) \o r.page,
              clicked |-> ClickedOf(o, Clicks(o)) \cup r.clicked]
\* special = await self._handle_special_challenges(): as far as overlays go
RECURSIVE HandleSpecialChallenges(_)
HandleSpecialChallenges(p) ==
    IF p = <<>> THEN [handled |-> FALSE, page |-> <<>>, clicked |-> {}]
    ELSE LET r == HandleSpecialChallenges(Tail(p))
             o == Head(p)
         IN  [handled |-> Handled(o) \/ r.handled,
              page |-> After(o, SpecialClicks(o)) \o r.page,
              clicked |-> ClickedOf(o, SpecialClicks(o)) \cup r.clicked]

Overlays == [kind : OverlayKinds, btns : OverlayButtons, hidden : {FALSE}, inert : {FALSE}]
\* the pages of at most n overlays; id is the place of the element in the document
Pages(n) == { [i \in 1..Len(p) |-> [id |-> i] @@ p[i]] : p \in SeqsUpTo(Overlays, n) }
ClInit == /\ cl_page \in Pages(MaxOverlays) /\ cl_counts = <<>>
          /\ cl_before = <<>> /\ cl_clicked = {} /\ cl_script = ""
ClIdle == /\ cl_page = <<>> /\ cl_counts = <<>>
          /\ cl_before = <<>> /\ cl_clicked = {} /\ cl_script = ""

\* cleared = await self._clear_popups(), twice in succession
ClCall ==
    /\ cl_script \in {"", "clear_popups"}
    /\ Len(cl_counts) < 2
    /\ cl_script' = "clear_popups"
    /\ cl_before' = cl_page
    /\ cl_page' = ClearPopups(cl_page).page
    /\ cl_clicked' = ClearPopups(cl_page).clicked
    /\ cl_counts' = Append(cl_counts, ClearPopups(cl_page).count)

\* special = await self._handle_special_challenges()
ClHandle ==
    /\ cl_script = ""
    /\ cl_script' = "handle_special"
    /\ cl_before' = cl_page
    /\ cl_page' = HandleSpecialChallenges(cl_page).page
    /\ cl_clicked' = HandleSpecialChallenges(cl_page).clicked
    /\ UNCHANGED cl_counts

\* C20 (as stated): a second call of _clear_popups on a page that nobody else
\* changed in between returns a count of zero, whatever the page holds.
C20_ClearIsIdempotent == Len(cl_counts) = 2 => cl_counts[2] = 0

(***************************************************************************)
(* VisionAnalyzer.analyze_page.  The response of the model is its text     *)
(* (absent, or a body inside or outside a markdown fence) and its usage    *)
(* metadata.  The body is a complete JSON object, such an object followed  *)
(* by more text, an object cut short, braces that balance around something *)
(* that is no JSON, a JSON array, or prose.                                *)
(***************************************************************************)
\* Thinking budget levels: start higher, escalate as attempts fail
THINKING_BUDGETS == <<2048, 4096, 4096, 8192, 8192, 8192, 8192, 8192, 8192, 8192>>

\* an index that wraps around the table
ThinkingBudgetWrapped(a) == THINKING_BUDGETS[(a % Len(THINKING_BUDGETS)) + 1]
\* budget_idx = min(attempt, len(self.THINKING_BUDGETS) - 1)
\* thinking_budget = self.THINKING_BUDGETS[budget_idx]
ThinkingBudget(a) == THINKING_BUDGETS[Min({a, Len(THINKING_BUDGETS) - 1}) + 1]

\* class ActionType(str, Enum), the members the model uses
ActionTypes == {"click", "wait"}
\* a complete JSON object: its fields
ObjectBodies == {"object", "object_tail"}
Objects ==
    [text : {"some"}, fence : {"none", "block"}, body : ObjectBodies,
     action_type : ActionTypes \cup {"fly", "missing"}, reasoning : BOOLEAN,
     code_found : {"None", "AB12CD"}, usage : {<<900, 40>>, <<1200, 0>>}]
\* everything else; the fields are those of no object
Broken ==
    [text : {"some"}, fence : {"none", "block"}, body : {"cut", "tail_bad", "array", "prose"},
     action_type : {"missing"}, reasoning : {FALSE}, code_found : {"None"},
     usage : {<<900, 40>>}]
    \cup [text : {"some", "None"}, fence : {"open"}, body : {"prose"},
          action_type : {"missing"}, reasoning : {FALSE}, code_found : {"None"},
          usage : {<<900, 40>>}]
    \cup [text : {"None"}, fence : {"none"}, body : {"prose"},
          action_type : {"missing"}, reasoning : {FALSE}, code_found : {"None"},
          usage : {<<900, 40>>}]
Responses == Objects \cup Broken

\* what the try block of analyze_page yields: an action or an exception
ParseError(e) == [ok |-> FALSE, err |-> e, action_type |-> "", target_selector |-> "None",
                  value |-> "None", code_found |-> "None"]
\* action = ActionResponse(**data)
Validate(r) ==
    IF r.action_type \notin ActionTypes \/ ~r.reasoning
    THEN ParseError("ValidationError")
    ELSE [ok |-> TRUE, err |-> "", action_type |-> r.action_type, target_selector |-> "#go",
          value |-> "None", code_found |-> r.code_found]
\* text = response.text.strip(); the fence is removed; data = json.loads(text),
\* and on JSONDecodeError the first complete {...} of the text is loaded instead
ParseResponse(r) ==
    IF r.text = "None" THEN ParseError("AttributeError")
    ELSE IF r.fence = "open" THEN ParseError("IndexError")
    ELSE CASE r.body \in ObjectBodies -> Validate(r)
           [] r.body = "array" -> ParseError("TypeError")
           [] OTHER -> ParseError("JSONDecodeError")

\* an analyzer that is only prepared for text that is no JSON
CatchJsonOnly(p, usage) ==
    [called |-> TRUE, raised |-> ~p.ok /\ p.err # "JSONDecodeError",
     action_type |-> IF p.ok THEN p.action_type
                     ELSE IF p.err = "JSONDecodeError" THEN "wait" ELSE "",
     target_selector |-> p.target_selector, value |-> p.value, code_found |-> p.code_found,
     tokens |-> IF ~p.ok /\ p.err # "JSONDecodeError" THEN <<0, 0>> ELSE usage]
\* except Exception as e: action = ActionResponse(action_type=ActionType.WAIT,
\*     reasoning=..., confidence=0.0);  return action, tokens_in, tokens_out
CatchAll(p, usage) ==
    [called |-> TRUE, raised |-> FALSE,
     action_type |-> IF p.ok THEN p.action_type ELSE "wait",
     target_selector |-> p.target_selector, value |-> p.value, code_found |-> p.code_found,
     tokens |-> usage]

NoOut == [called |-> FALSE, raised |-> FALSE, action_type |-> "", target_selector |-> "None",
          value |-> "None", code_found |-> "None", tokens |-> <<0, 0>>, budget |-> 0]
\* analyze_page(screenshot_bytes, html, challenge_num, dom_codes, attempt)
AnalyzePage(a, r) ==
    [budget |-> ThinkingBudget(a)] @@ CatchAll(ParseResponse(r), r.usage)

NoResponse == [text |-> "None", fence |-> "none", body |-> "prose", action_type |-> "missing",
               reasoning |-> FALSE, code_found |-> "None", usage |-> <<0, 0>>]
VaInit == /\ va_attempt \in 0..MaxVisionAttempt
          /\ va_response \in Responses
          /\ va_out = NoOut
VaIdle == va_attempt = 0 /\ va_response = NoResponse /\ va_out = NoOut

\* the first call of a challenge
VaCall ==
    /\ ~va_out.called
    /\ va_out' = AnalyzePage(va_attempt, va_response)
    /\ UNCHANGED <<va_attempt, va_response>>

\* a later call of the same challenge: more attempts have gone by
VaLater ==
    /\ va_out.called
    /\ \E a \in (va_attempt + 1)..MaxVisionAttempt, r \in Responses :
          /\ va_attempt' = a
          /\ va_response' = r
          /\ va_out' = AnalyzePage(a, r)

(***************************************************************************)
(* extract_hidden_codes.  The page content is what the parser makes of it: *)
(* for every kind of place a token can sit in, the characters found there. *)
(* "text" is the text of the elements that are not hidden by their style   *)
(* or by the hidden attribute; the text of the hidden elements is part of  *)
(* soup.get_text() as well, since the parser knows no style.               *)
(***************************************************************************)
Sources == {"text", "data", "aria", "style_hidden", "hidden_attr", "comment", "meta", "title"}

UpperChars == <<"0", "1", "2", "3", "4", "5", "6", "7", "8", "9",
                "A", "B", "C", "D", "E", "F", "G", "H", "I", "J", "K", "L", "M",
                "N", "O", "P", "Q", "R", "S", "T", "U", "V", "W", "X", "Y", "Z">>
LowerChars == <<"a", "b", "c", "d", "e", "f", "g", "h", "i", "j", "k", "l", "m",
                "n", "o", "p", "q", "r", "s", "t", "u", "v", "w", "x", "y", "z">>
Separators == {" ", ":"}
\* the class [A-Z0-9]
CodeChars == Range(UpperChars)
\* \w of the regular expressions
WordChars == Range(UpperChars) \cup Range(LowerChars) \cup {"_"}
\* ord(c): the order Python compares the characters of two strings by
Ord == [c \in CodeChars |-> CHOOSE i \in 1..Len(UpperChars) : UpperChars[i] = c]
\* c.isalpha() on the characters [A-Z0-9]
IsAlpha(c) == c \in CodeChars /\ ~IsDigit(c)
IsWordChar(c) == c \in WordChars
\* str.upper(), character by character
UpperChar == [c \in WordChars \cup Separators |->
                 IF \E i \in 1..Len(LowerChars) : LowerChars[i] = c
                 THEN UpperChars[10 + (CHOOSE i \in 1..Len(LowerChars) : LowerChars[i] = c)]
                 ELSE c]
Upper(t) == [i \in 1..Len(t) |-> UpperChar[t[i]]]

\* CODE_PATTERN.findall(t), as a set: r'\b([A-Z0-9]{6})\b'
CodePattern(t) ==
    { SubSeq(t, i, i + 5) : i \in { j \in 1..(Len(t) - 5) :
                                      /\ \A k \in j..(j + 5) : t[k] \in CodeChars
                                      /\ j = 1 \/ ~IsWordChar(t[j - 1])
                                      /\ j + 5 = Len(t) \/ ~IsWordChar(t[j + 6]) } }

\* the entries of FALSE_POSITIVES that the pages below can spell, and one of
\* its entries that is too long to match the pattern
FALSE_POSITIVES == { <<"S", "U", "B", "M", "I", "T">>, <<"H", "I", "D", "D", "E", "N">>,
                     <<"1", "5", "0", "0", "M", "S">>, <<"B", "A", "S", "E", "6", "4">>,
                     <<"C", "O", "N", "T", "E", "N", "T">> }
\* PX|VH|VW|EM|REM|CH|EX|PC|PT|MM|CM|IN|MS|FR
CssUnits == { <<"P", "X">>, <<"V", "H">>, <<"V", "W">>, <<"E", "M">>, <<"R", "E", "M">>,
              <<"C", "H">>, <<"E", "X">>, <<"P", "C">>, <<"P", "T">>, <<"M", "M">>,
              <<"C", "M">>, <<"I", "N">>, <<"M", "S">>, <<"F", "R">> }
\* re.match(r'^\d+(?:PX|...)$', c)
IsCssLength(c) == \E k \in 1..(Len(c) - 1) :
                     /\ \A i \in 1..k : IsDigit(c[i])
                     /\ SubSeq(c, k + 1, Len(c)) \in CssUnits
\* c.isdigit()
IsNumeric(c) == Len(c) > 0 /\ \A i \in 1..Len(c) : IsDigit(c[i])
\* _false_suffixes
FalseSuffixes == { <<"T", "H", "I", "S">>, <<"T", "H", "A", "T">>, <<"W", "H", "A", "T">>,
                   <<"S", "T", "E", "P">>, <<"I", "T", "E", "M">>, <<"T", "A", "S", "K">>,
                   <<"P", "A", "G", "E">>, <<"F", "R", "O", "M">> }
\* re.match(r'^\d{2}', c) and c[2:] in _false_suffixes
IsNumberedWord(c) == /\ Len(c) >= 2 /\ IsDigit(c[1]) /\ IsDigit(c[2])
                     /\ SubSeq(c, 3, Len(c)) \in FalseSuffixes

\* a filter that lets the CSS lengths through
SurvivesCss(c) == /\ c \notin FALSE_POSITIVES
                  /\ ~IsNumeric(c)
                  /\ ~IsNumberedWord(c)
\* the four filters of lines 119-130
Survives(c) == /\ c \notin FALSE_POSITIVES
               /\ ~IsCssLength(c)
               /\ ~IsNumeric(c)
               /\ ~IsNumberedWord(c)

\* soup.get_text(separator=' '): the text of every element, hidden or not
AllText(html) == html["text"] \o <<" ">> \o html["style_hidden"] \o <<" ">> \o html["hidden_attr"]

\* a collection that forgets the title attributes
RawCodesNoTitle(html) ==
    CodePattern(Upper(AllText(html)))
        \cup UNION { CodePattern(Upper(html[s])) : s \in Sources \ {"text", "title"} }
\* codes, once the steps 0 to 6 have filled it
RawCodes(html) ==
    CodePattern(Upper(AllText(html)))
        \cup UNION { CodePattern(Upper(html[s])) : s \in Sources \ {"text"} }

\* the sources the second scan (lines 135-152) reads again
HighPrioritySources == {"data", "aria", "comment", "style_hidden", "hidden_attr"}
\* a ranking that knows no hidden place
HighPriorityNone(html, kept) == {}
\* high_priority
HighPriority(html, kept) ==
    kept \cap UNION { CodePattern(Upper(html[s])) : s \in HighPrioritySources }

\* is_mixed of sort_key
IsMixed(c) == (\E i \in 1..Len(c) : IsDigit(c[i])) /\ (\E i \in 1..Len(c) : IsAlpha(c[i]))

\* a < b for two strings of [A-Z0-9]
StrLess(a, b) ==
    \/ \E i \in 1..Len(a) : /\ i <= Len(b)
                            /\ SubSeq(a, 1, i - 1) = SubSeq(b, 1, i - 1)
                            /\ Ord[a[i]] < Ord[b[i]]
    \/ Len(a) < Len(b) /\ a = SubSeq(b, 1, Len(a))

\* a key that leaves the mix of letters and digits out
SortKeyNoMix(c, hp) == <<IF c \in hp THEN 0 ELSE 1, 0, c>>
\* sort_key(c): (not is_hp, not is_mixed, c), False before True
SortKey(c, hp) == <<IF c \in hp THEN 0 ELSE 1, IF IsMixed(c) THEN 0 ELSE 1, c>>
\* the order of two keys
KeyLess(k1, k2) == \/ k1[1] < k2[1]
                   \/ k1[1] = k2[1] /\ k1[2] < k2[2]
                   \/ k1[1] = k2[1] /\ k1[2] = k2[2] /\ StrLess(k1[3], k2[3])

\* sorted(codes, key=sort_key): every token goes to its place among the sorted ones
InsertSorted(sorted, c, hp) ==
    LET k == Cardinality({ i \in 1..Len(sorted) : KeyLess(SortKey(sorted[i], hp), SortKey(c, hp)) })
    IN  SubSeq(sorted, 1, k) \o <<c>> \o SubSeq(sorted, k + 1, Len(sorted))
RECURSIVE Sorted(_, _)
Sorted(S, hp) == IF S = {} THEN <<>>
                 ELSE LET c == CHOOSE x \in S : TRUE
                      IN  InsertSorted(Sorted(S \ {c}, hp), c, hp)

\* the whole sorted list, without the limit
ReturnAll(sorted_codes) == sorted_codes
\* return sorted_codes[:15]
ReturnCapped(sorted_codes) == Take(sorted_codes, 15)

\* extract_hidden_codes(html)
ExtractHiddenCodes(html) ==
    LET kept == { c \in RawCodes(html) : Survives(c) }
    IN  ReturnCapped(Sorted(kept, HighPriority(html, kept)))

\* ---- the pages extract_hidden_codes is called on
\* the words a page can hold: tokens (two of them the same but for the case),
\* words the filters are for, and a word that is too long
Vocabulary == << <<"A", "B", "1", "2", "C", "D">>, <<"a", "b", "1", "2", "c", "d">>,
                 <<"A", "A", "A", "A", "A", "A">>, <<"A", "A", "1", "1", "B", "B">>,
                 <<"S", "U", "B", "M", "I", "T">>, <<"6", "4", "8", "0", "P", "X">>,
                 <<"1", "2", "3", "4", "5", "6">>, <<"1", "0", "T", "H", "I", "S">>,
                 <<"A", "B", "1", "2", "C", "D", "E">> >>
\* the i-th of the tokens that fill a page: K00001, K00002, ...
Filler(i) == <<"K", "0", "0", "0", DigitChar(i \div 10), DigitChar(i % 10)>>
RECURSIVE FillerText(_)
FillerText(n) == IF n = 0 THEN <<>> ELSE FillerText(n - 1) \o <<" ">> \o Filler(n)
\* the words placed in source s, one after the other: 'code: W code: W'
RECURSIVE PlacedText(_, _, _)
PlacedText(P, s, i) ==
    IF i = 0 THEN <<>>
    ELSE PlacedText(P, s, i - 1)
           \o (IF <<s, i>> \in P THEN <<"c", "o", "d", "e", ":", " ">> \o Vocabulary[i] \o <<" ">>
               ELSE <<>>)
\* the content in which the words P are placed and n more tokens are visible
Content(P, n) ==
    [s \in Sources |-> PlacedText(P, s, Len(Vocabulary))
                         \o (IF s = "text" THEN FillerText(n) ELSE <<>>)]
\* the sets of at most n places (a source and a word of the vocabulary)
RECURSIVE Placements(_)
Placements(n) == IF n = 0 THEN {{}}
                 ELSE { P \cup {x} : P \in Placements(n - 1),
                                      x \in Sources \X (1..Len(Vocabulary)) } \cup {{}}
\* the pages of at most n placed words, and the full pages of one word fewer
Contents(n, fill) == { Content(P, 0) : P \in Placements(n) }
                        \cup { Content(P, fill) : P \in Placements(n - 1) }
NoContent == [s \in Sources |-> <<>>]
NotExtracted == [called |-> FALSE, codes |-> <<>>]

ExInit == ex_page \in Contents(MaxPlaced, MaxFill) /\ ex_out = NotExtracted
ExIdle == ex_page = NoContent /\ ex_out = NotExtracted

\* codes = extract_hidden_codes(html)
ExCall ==
    /\ ex_out = NotExtracted
    /\ ex_out' = [called |-> TRUE, codes |-> ExtractHiddenCodes(ex_page)]
    /\ UNCHANGED ex_page

(***************************************************************************)
(* The fast path on pages with content: AgentChallengeSolver up to step    *)
(* StepCap + 1, where attempt 0 reads the content of the page, extracts    *)
(* the candidates from it and submits them in the order of the list.  A    *)
(* token is the sequence of its characters here.  The rest of the fast     *)
(* path and the later attempts are taken whole.                            *)
(***************************************************************************)
ScenarioSteps == StepCap + 1
ScenarioPages == ScenarioSteps + 1

\* the words a page of the scenario holds besides the comment: AAAAAA, AA11BB
ScenarioWords == {3, 4}
\* '<!-- code: AB12CD -->', or no such comment, and at most one more word
ScenarioContents ==
    { Content(P \cup Q, 0) :
         P \in {{}, {<<"comment", 1>>}},
         Q \in {{}} \cup { {<<s, w>>} : s \in Sources, w \in ScenarioWords } }

\* what extract_hidden_codes returns on each of them
ScenarioCodes == [html \in ScenarioContents |-> ExtractHiddenCodes(html)]

\* scroll, click the reveal controls; html = await self.browser.get_html();
\* codes = extract_hidden_codes(html)
FastRevealContent ==
    /\ pc = "fast"
    /\ \E n2 \in Reacts(page, ScenarioPages),
          cs \in ClickChoices("fast_path", RevealLabels), html \in ScenarioContents :
          /\ page' = n2
          /\ ev' = ClickEv(cs)
          /\ ex_page' = html
          /\ ex_out' = [called |-> TRUE, codes |-> ScenarioCodes[html]]
          /\ codes' = ScenarioCodes[html]
          /\ queue' = ScenarioCodes[html]
    /\ Goto("f_sub1")
    /\ UNCHANGED <<codes_to_try, ret, action, failed_codes, everFailed>>
    /\ UNCHANGED <<cp_loc, cp_step, cp_out, cp_out2, fs_dom, fs_click, solver, browser,
                   current_step, prevFailed, mainVars, vaVars, clVars, hdVars, lateVars, handler,
                   oracleVars>>

\* for code in codes: ... _fill_and_submit(code, step) ...
FastSubmitContent == SubmitLoopTo("f_sub1", "f_rest", ScenarioPages) /\ UNCHANGED exVars

\* the handlers of the fast path after the first loop, taken whole
FastRest ==
    /\ pc = "f_rest"
    /\ \E n2 \in Reacts(page, ScenarioPages), passed \in BOOLEAN :
          /\ page' = n2
          /\ IF passed THEN ReturnTrue ELSE NextAttempt
    /\ ev' = NoEv
    /\ UNCHANGED everFailed
    /\ Fixed

\* the attempts after the first, taken whole
LaterAttempt == pc = "agent" /\ AttemptBody

(***************************************************************************)
(* Claims about the failure memory of a step                               *)
(***************************************************************************)
\* C1: within one step no token is handed to _fill_and_submit again after a
\* submission of that token failed in that step, at any call site.
C1_NoResubmission == ~ev.again

\* C2: the failure memory is scoped to one step: it is empty when _solve_step
\* starts, and it only ever holds tokens whose submission failed during the
\* current step, so a token that failed on the step before is submitted again.
C2_FailureMemoryPerStep ==
    /\ (pc = "attempt" /\ attempt = 0 => failed_codes = <<>>)
    /\ Range(failed_codes) \subseteq everFailed
\* on a later step, a token that failed on the step before is submitted
C2_Witness == /\ current_step >= 2
              /\ ev.sub # ""
              /\ ev.sub \in prevFailed

\* C3: every token whose _fill_and_submit returned False during the step is
\* in failed_codes before anything else is submitted.
C3_FailuresRecorded == everFailed \subseteq Range(failed_codes)

(***************************************************************************)
(* Claims about decoy controls during a step                               *)
(***************************************************************************)
SubmissionStrategies == {"fill_and_submit", "try_trap_buttons", "scroll_to_find"}

\* C7 (as stated): no strategy of _solve_step (submission, trap-button pass,
\* scroll-to-find phases) clicks a control whose label matches the decoy phrases.
C7_EngineAvoidsDecoys ==
    \A c \in ev.clicks : c.by \in SubmissionStrategies => ~c.decoy

\* C7 (amended): during a step, a control whose label matches the decoy
\* phrases is never clicked by the submission routine _fill_and_submit; the
\* clicks on decoy-labelled controls all come from the other strategies.
C7_SubmissionAvoidsDecoys ==
    \A c \in ev.clicks : c.decoy => c.by # "fill_and_submit"
\* a token was submitted during a step and the routine clicked a control
C7_Witness == /\ ev.sub # ""
              /\ \E c \in ev.clicks : c.by = "fill_and_submit"

(***************************************************************************)
(* Claims about the loops                                                  *)
(***************************************************************************)
BodyPcs == {"fast", "agent", "classic"}

\* C9: the per-step loop of either solver runs at most 15 attempts; it returns
\* success as soon as the progress check at the head of an attempt succeeds,
\* and it returns failure only when the 15 attempts are used up.
C9_BoundedAttempts ==
    [][ /\ attempt' <= MaxAttempts
        /\ (pc' \in BodyPcs => attempt' < MaxAttempts)
        /\ (pc' = "failed" => attempt' = MaxAttempts)
        /\ (pc = "attempt" /\ attempt < MaxAttempts
               /\ Progress(solver, page, current_step)
             => pc' = "run" /\ metric'.ended /\ metric'.success)
      ]_vars
\* a step has used up its attempts and returned failure
C9_Witness == /\ pc = "failed"
              /\ attempt = MaxAttempts
              /\ current_step >= 1

C11_ProgressCheckFirst ==
    [][ /\ (pc = "attempt" /\ AttemptsLeft(attempt)) =>
              IF Progress(solver, page, current_step)
              THEN /\ pc' = "run"
                   /\ metric'.ended /\ metric'.success
                   /\ ev' = NoEv
                   /\ page' = page
                   /\ oracleAt' = oracleAt
              ELSE /\ pc' \in BodyPcs
                   /\ ev'.sub = ""
                   /\ \A c \in ev'.clicks : c.by = "clear_popups"
                   /\ oracleAt' = oracleAt
        /\ (pc' \in BodyPcs /\ pc \notin BodyPcs) =>
              pc = "attempt" /\ ~Progress(solver, page, current_step) ]_vars

\* C11 witness: AgentChallengeSolver returned from the head of a later attempt:
\* the step is recorded as passed and the attempt never reached the oracle
C11_Witness == /\ solver = "agent"
               /\ pc = "run"
               /\ metric.success
               /\ attempt >= 1
               /\ attempt \notin oracleAt

(***************************************************************************)
(* Claims about state-reset recovery and the cadence of the oracle         *)
(***************************************************************************)
\* C12 (as stated): the state reset (navigate away and back) is performed
\* exactly once per step, when every known candidate has failed: never twice
\* in a step, and a step is not given up without it.
C12_ResetExactlyOnce ==
    /\ resets <= 1
    /\ (pc = "failed" => resets = 1)

\* C13 (as stated): in both dispatchers the oracle is invoked only every K-th
\* attempt for a K greater than 1: no two consecutive attempts of a step both
\* invoke it, so a step makes at most MaxAttempts / 2 invocations.
C13_OracleEveryKth ==
    /\ \A a \in oracleAt : a + 1 \notin oracleAt
    /\ Cardinality(oracleAt) <= MaxAttempts \div 2

\* C13 (amended): ChallengeSolver invokes the oracle only on attempts whose
\* index is a positive multiple of 5 (attempts 5 and 10), at most twice per
\* step; AgentChallengeSolver invokes it on every attempt after the first
\* (attempts 1 to 14), at most 14 times per step.
C13_OracleCadence ==
    /\ solver = "classic" =>
          /\ \A a \in oracleAt : a > 0 /\ a % 5 = 0
          /\ Cardinality(oracleAt) <= (MaxAttempts - 1) \div 5
    /\ solver = "agent" =>
          /\ oracleAt \subseteq 1..(MaxAttempts - 1)
          /\ pc = "attempt" => oracleAt = 1..(attempt - 1)

\* C13 witness: either dispatcher has consulted the oracle twice in one step:
\* ChallengeSolver at attempts 5 and 10, AgentChallengeSolver at attempts 1 and 2
C13_Witness ==
    \/ solver = "classic" /\ oracleAt = {5, 10} /\ pc = "attempt"
    \/ solver = "agent" /\ oracleAt = {1, 2} /\ pc = "attempt" /\ attempt = 3

(***************************************************************************)
(* Claims about analyze_page                                               *)
(***************************************************************************)
MaxBudget == THINKING_BUDGETS[Len(THINKING_BUDGETS)]

Malformed(r) == \/ r.text = "None"
                \/ r.fence = "open"
                \/ r.body \notin ObjectBodies
                \/ r.action_type \notin ActionTypes
                \/ ~r.reasoning

\* C17: on a malformed response analyze_page does not raise; it returns an
\* action of type WAIT with no target, no value and no candidate, together
\* with the token counts of the response.
C17_MalformedIsWait ==
    (va_out.called /\ Malformed(va_response)) =>
        /\ ~va_out.raised
        /\ va_out.action_type = "wait"
        /\ va_out.target_selector = "None"
        /\ va_out.value = "None"
        /\ va_out.code_found = "None"
        /\ va_out.tokens = va_response.usage

\* C17 witness: a JSON object that names a candidate but an unknown action
\* type has become a WAIT without the candidate
C17_Witness == /\ va_out.called
               /\ va_response.body = "object"
               /\ va_response.action_type = "fly"
               /\ va_response.code_found = "AB12CD"
               /\ va_out.action_type = "wait"
               /\ va_out.code_found = "None"

(***************************************************************************)
(* Claims about the calls of the oracle made during a step                 *)
(***************************************************************************)
\* C15 (as stated): every call of the vision analyzer made by a dispatcher
\* passes the failure memory of the step: the tokens that were submitted and
\* failed in the step so far.
C15_CallCarriesMemory ==
    [][ oracleAt' \ oracleAt # {} =>
           /\ vcall'.passed
           /\ vcall'.codes = everFailed ]_vars

C18_NoFaultEndsSession ==
    /\ main_pc # "crashed"
    /\ pc \notin {"raising", "raised"}
    /\ (browser = "stopped" /\ pc # "cancelled") => current_step = TotalSteps

Elements(p) == { p[i].id : i \in 1..Len(p) }
ElementOf(p, id) == CHOOSE o \in Range(p) : o.id = id

\* C21 (as stated): after any call of _clear_popups or
\* _handle_special_challenges the page has the same elements as before.
C21_ElementsKept == cl_script # "" => Elements(cl_page) = Elements(cl_before)

\* C21 (amended): the two scripts take no element out of the document
\* themselves: after a call an overlay is missing only if the application
\* dismissed it on a click on one of its working, enabled buttons; an overlay a
\* hide rule matches and that has no such button is still in the page, hidden
\* and with its pointer interception disabled.
C21_ClearerOnlyHides ==
    cl_script # "" =>
       /\ Elements(cl_page) \subseteq Elements(cl_before)
       /\ \A o \in Range(cl_before) :
             /\ o.id \notin Elements(cl_page) =>
                   \E c \in cl_clicked : c.id = o.id /\ c.btn.works /\ ~c.btn.disabled
             /\ ( /\ o.kind \in {"all_fake", "fake_warning", "offer"}
                  /\ \A i \in 1..Len(o.btns) : ~o.btns[i].works \/ o.btns[i].disabled )
                   => /\ o.id \in Elements(cl_page)
                      /\ ElementOf(cl_page, o.id).hidden
                      /\ ElementOf(cl_page, o.id).inert

\* a popup whose close buttons are all fake, hidden and left in the page, next
\* to a popup the application dismissed on a click
C21_Witness ==
    /\ cl_script = "clear_popups"
    /\ Len(cl_before) = 2 /\ Len(cl_page) = 1
    /\ cl_page[1].kind = "all_fake" /\ cl_page[1].hidden /\ cl_page[1].inert
    /\ \E c \in cl_clicked : c.btn.works

\* C22 (as stated): no call of _clear_popups clicks a disabled control or a
\* control labelled as fake, in any branch.
C22_OnlyEnabledUnmarkedClicked ==
    cl_script = "clear_popups" =>
       \A c \in cl_clicked : ~c.btn.disabled /\ c.btn.label # "Close (Fake)"

(***************************************************************************)
(* Claims about the candidate extractor                                    *)
(***************************************************************************)
\* the tokens the pattern finds in source s of the page, in upper case
TokensAt(s) == CodePattern(Upper(ex_page[s]))
\* the tokens of the page that no filter removes
Surviving == { c \in UNION { TokensAt(s) : s \in Sources } : Survives(c) }
HiddenTokens == UNION { TokensAt(s) : s \in Sources \ {"text"} }
VisibleOnly(c) == c \in TokensAt("text") /\ c \notin HiddenTokens

\* C23: for every page content the list extract_hidden_codes returns has no
\* token twice, has at most 15 entries, and every entry is exactly 6 characters
\* of A-Z and 0-9.
C23_ListWellFormed ==
    ex_out.called =>
       /\ Len(ex_out.codes) <= 15
       /\ \A i, j \in 1..Len(ex_out.codes) : i # j => ex_out.codes[i] # ex_out.codes[j]
       /\ \A i \in 1..Len(ex_out.codes) :
             /\ Len(ex_out.codes[i]) = 6
             /\ \A k \in 1..6 : ex_out.codes[i][k] \in CodeChars

\* a page with more than 15 surviving tokens, cut to 15
C23_Witness == /\ ex_out.called
               /\ Cardinality(Surviving) > 15
               /\ Len(ex_out.codes) = 15

\* the 6-character words the filters of the claim are for
FalsePositive(c) == c \in FALSE_POSITIVES \/ IsCssLength(c) \/ IsNumeric(c)

\* C24: for every page content the result of extract_hidden_codes holds no
\* token of FALSE_POSITIVES, no digits-plus-CSS-unit token and no purely
\* numeric token; a page whose 6-character words are all such tokens, or that
\* has none, gives the empty list.
C24_NoFalsePositive ==
    ex_out.called =>
       /\ \A i \in 1..Len(ex_out.codes) : ~FalsePositive(ex_out.codes[i])
       /\ (\A c \in UNION { TokensAt(s) : s \in Sources } : FalsePositive(c))
             => ex_out.codes = <<>>

\* a page whose only 6-character words are an instruction word and a CSS length
C24_Witness == /\ ex_out.called
               /\ \E c \in TokensAt("text") : c \in FALSE_POSITIVES
               /\ \E c \in UNION { TokensAt(s) : s \in Sources } : IsCssLength(c)
               /\ ex_out.codes = <<>>

\* C25 (as stated): in the result every token drawn from a hidden source (a
\* data-/aria- attribute, a hidden element, a comment, meta content, a title
\* attribute) comes before every token that appears only in visible text.
C25_HiddenAboveVisible ==
    ex_out.called =>
       \A i, j \in 1..Len(ex_out.codes) :
          (VisibleOnly(ex_out.codes[i]) /\ ex_out.codes[j] \in HiddenTokens) => j < i

\* the tier the statement gives a token: attribute or comment, hidden text, visible
Tier(c) == IF \E s \in {"data", "aria", "comment", "meta", "title"} : c \in TokensAt(s) THEN 0
           ELSE IF \E s \in {"style_hidden", "hidden_attr"} : c \in TokensAt(s) THEN 1
           ELSE 2
MixRank(c) == IF IsMixed(c) THEN 0 ELSE 1

\* C26 (as stated): the result is sorted by source tier (attribute and comment
\* tokens, then tokens of hidden text, then tokens of visible text), then
\* tokens mixing a letter and a digit first, then lexicographically.
C26_ThreeTierOrder ==
    ex_out.called =>
       \A i, j \in 1..Len(ex_out.codes) :
          i < j => KeyLess(<<Tier(ex_out.codes[i]), MixRank(ex_out.codes[i]), ex_out.codes[i]>>,
                           <<Tier(ex_out.codes[j]), MixRank(ex_out.codes[j]), ex_out.codes[j]>>)

\* the tier the second scan gives a token
Rescanned(c) == IF \E s \in {"data", "aria", "comment", "style_hidden", "hidden_attr"} :
                      c \in TokensAt(s)
                THEN 0 ELSE 1

\* C26 (amended): the result is sorted by two tiers (the tokens found in a
\* data-/aria- attribute, a comment node or the text of a hidden element, then
\* all the others), then tokens mixing a letter and a digit first, then
\* lexicographically; it is the first 15 of the surviving tokens in that order,
\* and so a function of the page content.
C26_TwoTierOrder ==
    ex_out.called =>
       /\ \A i, j \in 1..Len(ex_out.codes) :
             i < j => KeyLess(<<Rescanned(ex_out.codes[i]), MixRank(ex_out.codes[i]), ex_out.codes[i]>>,
                              <<Rescanned(ex_out.codes[j]), MixRank(ex_out.codes[j]), ex_out.codes[j]>>)
       /\ Range(ex_out.codes) \subseteq Surviving
       /\ \A c \in Surviving \ Range(ex_out.codes) :
             /\ Len(ex_out.codes) = 15
             /\ KeyLess(<<Rescanned(ex_out.codes[15]), MixRank(ex_out.codes[15]), ex_out.codes[15]>>,
                        <<Rescanned(c), MixRank(c), c>>)

\* a token of hidden text ranked above a token of a data attribute
C26_Witness ==
    /\ ex_out.called
    /\ Len(ex_out.codes) = 2
    /\ ex_out.codes[1] \in TokensAt("style_hidden") /\ Tier(ex_out.codes[1]) = 1
    /\ ex_out.codes[2] \in TokensAt("data")

\* C27: every 6-character token that survives the filters and stands as a
\* whole word in a data-* or aria-* attribute value, in the text of an element
\* hidden by its style, in a comment or in a title attribute is in the result
\* (in upper case), when the page has at most 15 surviving tokens.
C27_HiddenTokenFound ==
    (ex_out.called /\ Cardinality(Surviving) <= 15) =>
       \A s \in {"data", "aria", "style_hidden", "comment", "title"} :
          \A c \in TokensAt(s) : Survives(c) => c \in Range(ex_out.codes)

\* a token written in lower case in a title attribute, found
C27_Witness ==
    /\ ex_out.called
    /\ \E c \in TokensAt("title") : c \in Range(ex_out.codes) /\ c \notin CodePattern(ex_page["title"])
    /\ \E c \in TokensAt("comment") : c \in Range(ex_out.codes)

(***************************************************************************)
(* Claims about the fast path on pages with content                        *)
(***************************************************************************)
\* the token of the comment '<!-- code: AB12CD -->'
ScenarioToken == Vocabulary[1]
\* the pages whose comments hold it
HasComment == [html \in ScenarioContents |->
                  ScenarioToken \in CodePattern(Upper(html["comment"]))]
\* the tokens of the hidden places the ranking knows
ScenarioHidden == [html \in ScenarioContents |->
                      UNION { CodePattern(Upper(html[s])) : s \in HighPrioritySources }]
\* this step of the submission loop called _fill_and_submit
Submitted == pc = "f_sub1" /\ (pc' = "run" \/ failed_codes' # failed_codes)
\* this step read the content of the page of step 3, and the comment is in it
ReadComment == /\ pc = "fast" /\ pc' = "f_sub1"
               /\ current_step = 3 /\ page' = 3
               /\ HasComment[ex_page']

C29_ReportAnsweredFirst == handler.skipped = {}

\* C30: a handler called on a page that lacks the element it acts on does
\* nothing to the page (no click, scroll, reset or key press) and returns
\* handled = false.
C30_FalsePositiveIsNoOp ==
    (tried.called /\ ~tried.present) =>
        (tried.out.acts = {} /\ ~tried.out.handled)

(***************************************************************************)
(* MetricsTracker: challenges maps every number start_challenge was called *)
(* with to its ChallengeMetric.                                            *)
(***************************************************************************)
MaxChallenge == 2       \* largest challenge number of a call in SpecTracker
MaxTokens == 2          \* largest token count of one end_challenge call

\* ChallengeMetric(challenge_num=num, start_time=time.time())
ChallengeMetric(num) ==
    [challenge_num |-> num, ended |-> FALSE, success |-> FALSE,
     tokens_in |-> 0, tokens_out |-> 0, error |-> "None"]

\* self.challenges[num] = ChallengeMetric(...)
start_challenge(ch, num) ==
    [n \in DOMAIN ch \cup {num} |-> IF n = num THEN ChallengeMetric(num) ELSE ch[n]]

\* if num in self.challenges: set end_time, success, tokens_in, tokens_out, error
end_challenge(ch, num, success, tokens_in, tokens_out, error) ==
    IF num \in DOMAIN ch
    THEN [ch EXCEPT ![num] = [@ EXCEPT !.ended = TRUE, !.success = success,
                                       !.tokens_in = tokens_in,
                                       !.tokens_out = tokens_out, !.error = error]]
    ELSE ch

\* sum(c.<field> for c in self.challenges.values()), over the keys S
RECURSIVE SumField(_, _, _)
SumField(ch, S, field) ==
    IF S = {} THEN 0
    ELSE LET n == CHOOSE x \in S : TRUE
         IN  ch[n][field] + SumField(ch, S \ {n}, field)

\* a count of the challenges that ended without success
FailedEnded(ch, successful) ==
    Cardinality({n \in DOMAIN ch : ch[n].ended /\ ~ch[n].success})
\* "failed": len(self.challenges) - successful
Failed(ch, successful) == Cardinality(DOMAIN ch) - successful

get_summary(ch) ==
    LET total_tokens_in == SumField(ch, DOMAIN ch, "tokens_in")
        total_tokens_out == SumField(ch, DOMAIN ch, "tokens_out")
        successful == Cardinality({n \in DOMAIN ch : ch[n].success})
    IN  [total_challenges |-> Cardinality(DOMAIN ch),
         successful |-> successful,
         failed |-> Failed(ch, successful),
         total_tokens |-> total_tokens_in + total_tokens_out,
         tokens_in |-> total_tokens_in,
         tokens_out |-> total_tokens_out]

\* MetricsTracker(): challenges = {}
NoChallenges == [n \in {} |-> ChallengeMetric(n)]

MtInit == /\ challenges = NoChallenges
          /\ started = {}
MtIdle == MtInit

\* tracker.start_challenge(num)
MtStart == \E num \in 1..MaxChallenge :
              /\ challenges' = start_challenge(challenges, num)
              /\ started' = started \cup {num}

\* tracker.end_challenge(num, success, tokens_in, tokens_out, error)
MtEnd == \E num \in 1..MaxChallenge, success \in BOOLEAN,
            tokens_in \in 0..MaxTokens, tokens_out \in 0..MaxTokens,
            error \in {"None", "timeout"} :
            /\ challenges' = end_challenge(challenges, num, success,
                                           tokens_in, tokens_out, error)
            /\ UNCHANGED started

(***************************************************************************)
(* Claims about MetricsTracker                                             *)
(***************************************************************************)
\* C33: after any sequence of start_challenge and end_challenge calls,
\* get_summary reports total_challenges equal to the number of distinct
\* challenges started, successful plus failed equal to total_challenges, and
\* total_tokens equal to the sum of tokens_in plus tokens_out over all the
\* recorded challenges, successful or failed.
C33_SummaryAddsUp ==
    LET s == get_summary(challenges)
    IN  /\ DOMAIN challenges = started
        /\ s.total_challenges = Cardinality(started)
        /\ s.successful + s.failed = s.total_challenges
        /\ s.total_tokens = SumField(challenges, started, "tokens_in")
                              + SumField(challenges, started, "tokens_out")
        /\ s.successful = Cardinality({n \in started : challenges[n].ended
                                                         /\ challenges[n].success})

\* C33 witness: two challenges recorded, one passed and one failed, both with
\* tokens, as in test_metrics_tracker_multiple_challenges
C33_Witness ==
    /\ started = {1, 2}
    /\ challenges[1].ended /\ challenges[1].success
    /\ challenges[2].ended /\ ~challenges[2].success /\ challenges[2].error = "timeout"
    /\ challenges[1].tokens_in + challenges[1].tokens_out > 0
    /\ challenges[2].tokens_in + challenges[2].tokens_out > 0
    /\ get_summary(challenges).failed = 1

(***************************************************************************)
(* run() and _solve_step of AgentChallengeSolver with their accounting.    *)
(* An attempt is taken whole.  The page answers an interaction by staying  *)
(* where it is, by moving to its next step, or by changing the fragment of *)
(* its location without leaving its step.                                  *)
(***************************************************************************)
UsageSteps == StepCap

\* browser.get_url() of a page on step l.n, with or without a fragment
UrlOf(l) == IF l.frag THEN Loc(PageUrl(l.n).toks \o <<"#">>) ELSE PageUrl(l.n)

\* where an interaction can leave the page
Answers(l) == {l, [l EXCEPT !.frag = ~l.frag]}
                 \cup (IF l.n <= UsageSteps THEN {[n |-> l.n + 1, frag |-> FALSE]} ELSE {})

\* action, tin, tout = self.vision.analyze(...): the token counts of one call
OracleCosts == {[tin |-> 2, tout |-> 1]}
NoCost == [tin |-> 0, tout |-> 0]

UsIdle == /\ us_pc = "idle"
          /\ us_step = 0
          /\ us_attempt = 0
          /\ location = [n |-> 0, frag |-> FALSE]
          /\ total_tin = 0
          /\ total_tout = 0
          /\ spent = NoCost

\* the browser is started and START is clicked: the page is on step 1
UsInit == /\ us_pc = "run"
          /\ us_step = 0
          /\ us_attempt = 0
          /\ location = [n |-> 1, frag |-> FALSE]
          /\ total_tin = 0
          /\ total_tout = 0
          /\ spent = NoCost

\* for step in range(1, 31): self.metrics.start_challenge(step);
\* _solve_step: total_tin = 0; total_tout = 0
UsStartStep ==
    /\ us_pc = "run"
    /\ us_step < UsageSteps
    /\ us_step' = us_step + 1
    /\ challenges' = start_challenge(challenges, us_step + 1)
    /\ started' = started \cup {us_step + 1}
    /\ us_attempt' = 0
    /\ total_tin' = 0
    /\ total_tout' = 0
    /\ us_pc' = "attempt"
    /\ UNCHANGED <<location, spent>>

\* self.metrics.end_challenge(step, True, total_tin, total_tout); return True
UsPassed(tin, tout) ==
    /\ challenges' = end_challenge(challenges, us_step, TRUE, tin, tout, "None")
    /\ us_pc' = "run"
    /\ UNCHANGED <<us_step, us_attempt, started>>

\* _fill_and_submit: return url_after != url_before, and the caller's
\* end_challenge(step, True, ...) without a call of _check_progress
UsSubmitted(l) == UrlOf(l) # UrlOf(location)

\* the head of an attempt: the loop is over (return False, and run() calls
\* end_challenge(step, success=False, error="Max attempts reached")), or
\* _check_progress(url, step) holds, or the attempt begins
UsHead ==
    /\ us_pc = "attempt"
    /\ IF ~AttemptsLeft(us_attempt)
       THEN /\ challenges' = end_challenge(challenges, us_step, FALSE, 0, 0,
                                           "Max attempts reached")
            /\ us_pc' = "run"
       ELSE IF CheckProgress(UrlOf(location), us_step).value
            THEN /\ challenges' = end_challenge(challenges, us_step, TRUE,
                                                total_tin, total_tout, "None")
                 /\ us_pc' = "run"
            ELSE /\ us_pc' = IF us_attempt = 0 THEN "fast" ELSE "agent"
                 /\ UNCHANGED challenges
    /\ UNCHANGED <<us_step, us_attempt, location, total_tin, total_tout, spent, started>>

\* what is left of an attempt once the oracle has answered (or was not asked):
\* a candidate submitted by _fill_and_submit moved the location, or the other
\* strategies ran and _check_progress is asked, or the attempt is over
UsBody(tin, tout) ==
    \/ \E l \in Answers(location) :
          /\ UsSubmitted(l)
          /\ location' = l
          /\ UsPassed(tin, tout)
    \/ \E l \in Answers(location) :
          /\ location' = l
          /\ IF CheckProgress(UrlOf(l), us_step).value
             THEN UsPassed(tin, tout)
             ELSE /\ us_attempt' = us_attempt + 1
                  /\ us_pc' = "attempt"
                  /\ UNCHANGED <<us_step, challenges, started>>

\* attempt 0: the fast path, which does not ask the oracle
UsFast ==
    /\ us_pc = "fast"
    /\ UsBody(total_tin, total_tout)
    /\ UNCHANGED <<total_tin, total_tout, spent>>

\* a later attempt: action, tin, tout = self.vision.analyze(...);
\* total_tin += tin; total_tout += tout; then the rest of the attempt
UsAgent ==
    /\ us_pc = "agent"
    /\ \E c \in OracleCosts :
          /\ total_tin' = total_tin + c.tin
          /\ total_tout' = total_tout + c.tout
          /\ spent' = [tin |-> spent.tin + c.tin, tout |-> spent.tout + c.tout]
          /\ UsBody(total_tin + c.tin, total_tout + c.tout)

(***************************************************************************)
(* Claims about the records of a session                                   *)
(***************************************************************************)
\* the step is recorded as passed by this transition
UsRecordsSuccess ==
    /\ us_step \in DOMAIN challenges
    /\ ~challenges[us_step].ended
    /\ challenges'[us_step].ended
    /\ challenges'[us_step].success

\* C36: a step is recorded as success only when progress was detected: every
\* end_challenge(step, success=True) of AgentChallengeSolver happens while
\* _check_progress holds for the current location; a location change that is
\* not an advancement never marks the step passed.
C36_SuccessOnlyOnProgress ==
    [][UsRecordsSuccess => CheckProgress(UrlOf(location'), us_step).value]_vars

\* C38: the tokens_in and tokens_out totals of the summary equal the sums of
\* the costs returned by all the oracle invocations of the session so far,
\* those made during steps that ended as failed included.
C38_AllCostsCounted ==
    us_pc = "run" =>
        /\ get_summary(challenges).tokens_in = spent.tin
        /\ get_summary(challenges).tokens_out = spent.tout

(***************************************************************************)
(* detect_challenge_type(html).  A page is the set of the text fragments   *)
(* it holds, in their own case, and the number of its '>Next<' controls;   *)
(* "w in html_lower" holds when a fragment is w once it is lowered.        *)
(***************************************************************************)
MaxNext == 4            \* most '>Next<' occurrences of a page of SpecDetect

Fragments == {"Cookie", "consent", "dismiss", "Close", "scroll down", "Scroll To Find",
              "hidden", "code", "data-", "DATA-", "moving", "catch", "wait", "Loading"}
\* html.lower(), fragment by fragment
LowerFragment(f) == CASE f = "Cookie" -> "cookie" [] f = "Close" -> "close"
                      [] f = "Scroll To Find" -> "scroll to find"
                      [] f = "DATA-" -> "data-" [] f = "Loading" -> "loading"
                      [] OTHER -> f
\* w in html_lower
InLower(html, w) == \E f \in html.frags : LowerFragment(f) = w
\* w in html
InHtml(html, w) == w \in html.frags

\* "cookie" in html_lower and "consent" in html_lower
CookieRule(html) == InLower(html, "cookie") /\ InLower(html, "consent")
\* "dismiss" in html_lower and "close" in html_lower
FakePopupRule(html) == InLower(html, "dismiss") /\ InLower(html, "close")
\* "scroll down" in html_lower or "scroll to find" in html_lower
ScrollRule(html) == InLower(html, "scroll down") \/ InLower(html, "scroll to find")
\* "hidden" in html_lower and ("code" in html_lower or "data-" in html)
HiddenCodeRule(html) == /\ InLower(html, "hidden")
                        /\ (InLower(html, "code") \/ InHtml(html, "data-"))
\* "moving" in html_lower or "catch" in html_lower
MovingRule(html) == InLower(html, "moving") \/ InLower(html, "catch")
\* "wait" in html_lower or "loading" in html_lower
DelayedRule(html) == InLower(html, "wait") \/ InLower(html, "loading")
\* next_count = len(re.findall(r'>next<', html_lower)); next_count > 3
DecoyRule(html) == html.nexts > 3

\* a detector that looks for a moving target before it looks for a hidden code
DetectMovingFirst(html) ==
    IF CookieRule(html) THEN "cookie"
    ELSE IF FakePopupRule(html) THEN "fake_popup"
    ELSE IF ScrollRule(html) THEN "scroll"
    ELSE IF MovingRule(html) THEN "moving"
    ELSE IF HiddenCodeRule(html) THEN "hidden_code"
    ELSE IF DelayedRule(html) THEN "delayed"
    ELSE IF DecoyRule(html) THEN "decoy"
    ELSE "unknown"
\* handlers.detect_challenge_type
detect_challenge_type(html) ==
    IF CookieRule(html) THEN "cookie"
    ELSE IF FakePopupRule(html) THEN "fake_popup"
    ELSE IF ScrollRule(html) THEN "scroll"
    ELSE IF HiddenCodeRule(html) THEN "hidden_code"
    ELSE IF MovingRule(html) THEN "moving"
    ELSE IF DelayedRule(html) THEN "delayed"
    ELSE IF DecoyRule(html) THEN "decoy"
    ELSE "unknown"

DtPages == [frags : SUBSET Fragments, nexts : 0..MaxNext]
DtInit == /\ dt_html \in DtPages
          /\ dt_out = ""
DtIdle == /\ dt_html = [frags |-> {}, nexts |-> 0]
          /\ dt_out = ""
\* detect_challenge_type(html)
DtCall == /\ dt_out = ""
          /\ dt_out' = detect_challenge_type(dt_html)
          /\ UNCHANGED dt_html

(***************************************************************************)
(* Claims about detect_challenge_type                                      *)
(***************************************************************************)
\* the types in their order of priority, and the rule of each
TypeOrder == <<"cookie", "fake_popup", "scroll", "hidden_code", "moving", "delayed",
               "decoy">>
RuleOf(html, i) == CASE i = 1 -> CookieRule(html) [] i = 2 -> FakePopupRule(html)
                     [] i = 3 -> ScrollRule(html) [] i = 4 -> HiddenCodeRule(html)
                     [] i = 5 -> MovingRule(html) [] i = 6 -> DelayedRule(html)
                     [] i = 7 -> DecoyRule(html)
Matching(html) == {i \in 1..Len(TypeOrder) : RuleOf(html, i)}

\* C34: detect_challenge_type classifies by the first matching rule in the
\* order cookie, fake_popup, scroll, hidden_code, moving, delayed, decoy
\* (more than three '>next<'), else unknown: a page matching several rules
\* gets the type of the earliest one.
C34_FirstMatchingRule ==
    dt_out # "" =>
        IF Matching(dt_html) = {} THEN dt_out = "unknown"
        ELSE \E i \in Matching(dt_html) :
                /\ dt_out = TypeOrder[i]
                /\ \A j \in Matching(dt_html) : i <= j

\* C34 witness: a page matching the rules of hidden_code, moving, delayed and
\* decoy at once is classified hidden_code
C34_Witness ==
    /\ dt_out = "hidden_code"
    /\ Matching(dt_html) = {4, 5, 6, 7}

(***************************************************************************)
(* ChallengeSolver._try_audio_challenge on the event loop.  The dispatcher *)
(* is suspended in one await at a time; au_pc names it.  A response of the *)
(* page is delivered to every 'response' listener the page carries: each   *)
(* on_audio_response call that sees audio awaits response.body().          *)
(***************************************************************************)
AudioCalls == 2         \* calls of the handler followed by SpecAudio

\* the awaits of the handler that are calls of the page
AudioPageCalls == {"reset", "play", "captured", "force", "fetch", "complete", "extract"}
\* among them, those made while the listener is registered
AudioListening == {"play", "captured", "force", "fetch"}
\* await asyncio.sleep(3.0), await asyncio.sleep(1.0)
AudioSleeps == {"sleep", "render"}

AuIdle == /\ au_pc = "idle"
          /\ au_calls = 0
          /\ listeners = 0
          /\ pending = 0
          /\ callbacks = 0
\* the dispatcher is in its loop, outside the handler
AuInit == /\ au_pc = "elsewhere"
          /\ au_calls = 0
          /\ listeners = 0
          /\ pending = 0
          /\ callbacks = 0

\* r = await self._try_audio_challenge(): page.evaluate resets the capture state
AuEnter ==
    /\ au_pc = "elsewhere"
    /\ au_calls < AudioCalls
    /\ au_calls' = au_calls + 1
    /\ au_pc' = "reset"
    /\ UNCHANGED <<listeners, pending, callbacks>>

\* self.browser.page.on('response', on_audio_response); Phase 1 begins
AuRegister ==
    /\ au_pc = "reset"
    /\ listeners' = listeners + 1
    /\ au_pc' = "play"
    /\ UNCHANGED <<au_calls, pending, callbacks>>

\* if play_result == 'not_found': self.browser.page.remove_listener(...)
PlayNotFound(n) == n - 1

\* play_result: 'not_found' returns False; otherwise the page, whose Play
\* control was clicked, may request its audio; await asyncio.sleep(3.0)
AuPlay ==
    /\ au_pc = "play"
    /\ \/ /\ listeners' = PlayNotFound(listeners)
          /\ au_pc' = "elsewhere"
          /\ UNCHANGED pending
       \/ /\ pending' \in {pending, pending + 1}
          /\ au_pc' = "sleep"
          /\ UNCHANGED listeners
    /\ UNCHANGED <<au_calls, callbacks>>

\* Phase 2: captured_info, force_result, the wait for React; the transcription
\* is a blocking call; audio_info is fetched when there is no transcript and
\* the page captured a source
AuPhase2 ==
    /\ \/ au_pc = "sleep" /\ au_pc' = "captured"
       \/ au_pc = "captured" /\ au_pc' = "force"
       \/ au_pc = "force" /\ au_pc' = "render"
       \/ au_pc = "render" /\ au_pc' = "fetch"
    /\ UNCHANGED <<au_calls, listeners, pending, callbacks>>

\* self.browser.page.remove_listener('response', on_audio_response); Phase 3
AuRemove ==
    /\ au_pc \in {"render", "fetch"}
    /\ listeners' = listeners - 1
    /\ au_pc' = "complete"
    /\ UNCHANGED <<au_calls, pending, callbacks>>

\* Phase 3 and Phase 4: the Complete control, get_html, _try_fill_code; return True
AuPhase34 ==
    /\ \/ au_pc = "complete" /\ au_pc' = "extract"
       \/ au_pc = "extract" /\ au_pc' = "elsewhere"
    /\ UNCHANGED <<au_calls, listeners, pending, callbacks>>

\* a call of the page raises; except Exception as e: ...; return False
AuRaise ==
    /\ au_pc \in AudioPageCalls
    /\ au_pc' = "elsewhere"
    /\ UNCHANGED <<au_calls, listeners, pending, callbacks>>

\* the page delivers an audio response: every listener's on_audio_response
\* runs up to  body = await response.body()
AuResponse ==
    /\ pending > 0
    /\ au_pc \notin {"idle", "stopped"}
    /\ pending' = pending - 1
    /\ callbacks' = callbacks + listeners
    /\ UNCHANGED <<au_pc, au_calls, listeners>>

\* response.body() returns (or raises: except Exception: pass)
AuBody ==
    /\ callbacks > 0
    /\ callbacks' = callbacks - 1
    /\ UNCHANGED <<au_pc, au_calls, listeners, pending>>

\* asyncio.wait_for cancels run() at the await it is suspended in;
\* finally: await self.browser.stop()
AuCancel ==
    /\ au_pc \in AudioPageCalls \cup AudioSleeps \cup {"elsewhere"}
    /\ au_pc' = "stop"
    /\ UNCHANGED <<au_calls, listeners, pending, callbacks>>

\* browser.stop() returns: the page and its listeners are gone
AuStopped ==
    /\ au_pc = "stop"
    /\ au_pc' = "stopped"
    /\ listeners' = 0
    /\ pending' = 0
    /\ UNCHANGED <<au_calls, callbacks>>

(***************************************************************************)
(* Claims about the audio handler                                          *)
(***************************************************************************)
\* the operations on the page that are in flight
InFlight == (IF au_pc \in AudioPageCalls \cup {"stop"} THEN 1 ELSE 0) + callbacks

\* C32: at no time are two operations on the page in flight together: no event
\* callback (the response listener of the audio handler) and no teardown acts
\* on the page while the dispatcher is suspended inside another call of it.
C32_OneOperationInFlight == InFlight <= 1

\* C40: on every exit path of _try_audio_challenge the response listener it
\* registered has been removed: whenever the dispatcher is outside the
\* handler, the page carries no response listener of the handler.
C40_NoListenerLeft == au_pc = "elsewhere" => listeners = 0

(***************************************************************************)
(* ChallengeSolver._try_video_challenge.  The page states a target frame,  *)
(* the seeks done and required, and offers (or not) the seek buttons and a *)
(* button that jumps to the target frame.                                  *)
(***************************************************************************)
MaxSeeksRead == 21      \* largest seek requirement a page of SpecVideo states
MaxFrame == 12          \* largest target frame a page of SpecVideo states
NavCap == 20            \* for _ in range(20): the manual navigation
TotalFrames == 60       \* the frames of the video

VideoPages == [targetFrame : {0, 2, MaxFrame},     \* 0: no target in the text
               currentFrame : {0},
               seeksDone : {0, 1},
               seeksRequired : 0..MaxSeeksRead,
               seekButtons : BOOLEAN,               \* '+1', '-1', '+10', '-10'
               frameButton : BOOLEAN]               \* 'Frame <target>'

VdIdle == /\ vd_pc = "idle"
          /\ video = [targetFrame |-> 0, currentFrame |-> 0, seeksDone |-> 0,
                      seeksRequired |-> 0, seekButtons |-> FALSE, frameButton |-> FALSE]
          /\ seeks_required = 0
          /\ seeks_done = 0
          /\ seek_count = 0
          /\ nav_count = 0
VdInit == /\ vd_pc = "parse"
          /\ video \in VideoPages
          /\ seeks_required = 0
          /\ seeks_done = 0
          /\ seek_count = 0
          /\ nav_count = 0

\* the frame the page shows after a click on a seek button
Seek(frame, delta) == IF frame + delta < 0 THEN 0
                      ELSE IF frame + delta > TotalFrames THEN TotalFrames
                      ELSE frame + delta

\* state = page.evaluate(...); if target is None: return False;
\* seeks_required = state.get('seeksRequired', 3); seeks_done = ...; seek_count = 0
VdParse ==
    /\ vd_pc = "parse"
    /\ IF video.targetFrame = 0
       THEN /\ vd_pc' = "returned_false"
            /\ UNCHANGED <<seeks_required, seeks_done>>
       ELSE /\ vd_pc' = "seek"
            /\ seeks_required' = video.seeksRequired
            /\ seeks_done' = video.seeksDone
    /\ UNCHANGED <<video, seek_count, nav_count>>

\* while seeks_done + seek_count < seeks_required
SeekLoopGoesOn == seeks_done + seek_count < seeks_required

\* one iteration of the seek loop: clicked -> seek_count += 1, else break
VdSeek ==
    /\ vd_pc = "seek"
    /\ IF SeekLoopGoesOn /\ video.seekButtons
       THEN /\ seek_count' = seek_count + 1
            /\ video' = [video EXCEPT !.currentFrame = Seek(@, 1)]
            /\ UNCHANGED vd_pc
       ELSE /\ vd_pc' = "navigate"
            /\ UNCHANGED <<seek_count, video>>
    /\ UNCHANGED <<seeks_required, seeks_done, nav_count>>

\* Step 2: nav_result: the button 'Frame <target>' is clicked, or 'not_found'
VdNavigate ==
    /\ vd_pc = "navigate"
    /\ IF video.frameButton
       THEN /\ video' = [video EXCEPT !.currentFrame = video.targetFrame]
            /\ vd_pc' = "finish"
       ELSE /\ vd_pc' = "manual"
            /\ UNCHANGED video
    /\ UNCHANGED <<seeks_required, seeks_done, seek_count, nav_count>>

\* btn_text: '+10' / '-10' when abs(diff) >= 10, else '+1' / '-1'
Delta(diff) == IF diff >= 10 THEN 10
               ELSE IF diff <= -10 THEN -10
               ELSE IF diff > 0 THEN 1 ELSE -1

\* for _ in range(20): if current == target: break; click btn_text
VdManual ==
    /\ vd_pc = "manual"
    /\ IF nav_count < NavCap /\ video.currentFrame # video.targetFrame
       THEN /\ nav_count' = nav_count + 1
            /\ video' = IF video.seekButtons
                        THEN [video EXCEPT !.currentFrame =
                                 Seek(@, Delta(video.targetFrame - @))]
                        ELSE video
            /\ UNCHANGED vd_pc
       ELSE /\ vd_pc' = "finish"
            /\ UNCHANGED <<nav_count, video>>
    /\ UNCHANGED <<seeks_required, seeks_done, seek_count>>

\* Step 3 and Step 4: the completion buttons are clicked, the code is read; return True
VdFinish ==
    /\ vd_pc = "finish"
    /\ vd_pc' = "returned_true"
    /\ UNCHANGED <<video, seeks_required, seeks_done, seek_count, nav_count>>

\* except Exception as e: ...; return False
VdRaise ==
    /\ vd_pc \in {"parse", "seek", "navigate", "manual", "finish"}
    /\ vd_pc' = "returned_false"
    /\ UNCHANGED <<video, seeks_required, seeks_done, seek_count, nav_count>>

(***************************************************************************)
(* Claims about the termination of the handlers                            *)
(***************************************************************************)
\* C31: every loop of a pattern handler is limited by a fixed iteration count
\* that does not depend on values read from the page (such as a required-seek
\* count): the loops of the video handler run at most the fixed count of its
\* manual navigation, whatever the page states.
C31_LoopsHaveFixedCaps ==
    /\ nav_count <= NavCap
    /\ seek_count <= NavCap

(***************************************************************************)
(* Claims about the end of a step and the end of the session               *)
(***************************************************************************)
\* C35 (as stated): with --keep-open, after a timeout the browser is still
\* open (BrowserController.stop has not been executed) when the 'BROWSER LEFT
\* OPEN FOR DEBUGGING' prompt is shown; it is closed only once Enter is pressed.
C35_BrowserOpenAtPrompt == main_pc = "input" => browser = "open"

\* C37: each step that runs to its end gets exactly one terminal record:
\* when _solve_step returns, the record of the step, open until then, is
\* closed with success = True if it returned True and with success = False
\* and an error string if it returned False; the record changes only then
\* and when start_challenge opens the record of the next step.
C37_OneTerminalRecord ==
    [][ /\ (pc \notin {"init", "run"} /\ pc' = "run")
            => /\ ~metric.ended
               /\ metric'.ended
               /\ metric'.num = current_step
               /\ metric'.success <=> (pc # "failed")
               /\ (pc = "failed" => metric'.error # "")
        /\ (metric' # metric)
            => \/ pc \notin {"init", "run"} /\ pc' = "run"
               \/ pc = "run" /\ metric' = StartChallenge(current_step + 1)
      ]_vars

\* C37 witness: the last step followed was recorded as passed, after a step
\* in which submissions failed
C37_Witness == /\ pc = "run"
               /\ current_step = StepCap
               /\ metric.num = current_step
               /\ metric.ended
               /\ metric.success
               /\ metric.error = ""
               /\ prevFailed # {}

\* self.max_attempts_per_challenge = 10 in ChallengeSolver.__init__
max_attempts_per_challenge == 10

\* C39 (as stated): ChallengeSolver never makes more attempts on a challenge
\* than max_attempts_per_challenge (10), and reports the challenge failed
\* after exactly that many attempts without progress.
C39_AttemptsWithinConfigured ==
    solver = "classic" =>
        /\ (pc = "classic" => attempt < max_attempts_per_challenge)
        /\ (pc = "failed" => attempt = max_attempts_per_challenge)

\* the parts of the model that a specification leaves alone
LateIdle == MtIdle /\ UsIdle /\ DtIdle /\ AuIdle /\ VdIdle

(***************************************************************************)
(* Specifications                                                          *)
(***************************************************************************)
SessionInit(solvers, flags) ==
    /\ solver \in solvers
    /\ browser = "closed"
    /\ pc = "init"
    /\ current_step = 0
    /\ attempt = 0
    /\ failed_codes = <<>>
    /\ queue = <<>>
    /\ codes = <<>>
    /\ codes_to_try = <<>>
    /\ ret = ""
    /\ action = NoAction
    /\ page = 0
    /\ metric = NoMetric
    /\ everFailed = {}
    /\ prevFailed = {}
    /\ ev = NoEv
    /\ oracleAt = {}
    /\ vcall = NoCall
    /\ resets = 0
    /\ handler = NoHandler
    /\ main_pc = "wait_for"
    /\ keep_open \in (IF solver = "agent" THEN flags ELSE {FALSE})
    /\ results_file = -1

SessionIdle == SessionInit({"none"}, {FALSE})

sessionVars == <<solver, browser, pc, current_step, attempt, failed_codes, queue, codes,
                 codes_to_try, ret, action, page, metric, everFailed, prevFailed, ev,
                 oracleAt, vcall, resets, handler, main_pc, keep_open, results_file>>

InitProgress == CpInit /\ FsIdle /\ SessionIdle /\ VaIdle /\ ClIdle /\ ExIdle /\ HdIdle /\ LateIdle
NextProgress == CpCall /\ UNCHANGED <<fsVars, sessionVars, vaVars, clVars, exVars, hdVars, lateVars>>
SpecProgress == InitProgress /\ [][NextProgress]_vars

InitSubmit == FsInit /\ CpIdle /\ SessionIdle /\ VaIdle /\ ClIdle /\ ExIdle /\ HdIdle /\ LateIdle
NextSubmit == FsCall /\ UNCHANGED <<cpVars, sessionVars, vaVars, clVars, exVars, hdVars, lateVars>>
SpecSubmit == InitSubmit /\ [][NextSubmit]_vars

\* _clear_popups called twice, or _handle_special_challenges, on every page of the bound
InitClear == ClInit /\ CpIdle /\ FsIdle /\ VaIdle /\ ExIdle /\ HdIdle /\ LateIdle /\ SessionIdle
NextClear == (ClCall \/ ClHandle) /\ UNCHANGED <<cpVars, fsVars, sessionVars, vaVars, exVars, hdVars, lateVars>>
SpecClear == InitClear /\ [][NextClear]_vars

\* extract_hidden_codes on every page of the bounds
InitExtract == ExInit /\ HdIdle /\ LateIdle /\ CpIdle /\ FsIdle /\ VaIdle /\ ClIdle /\ SessionIdle
NextExtract == ExCall /\ UNCHANGED <<cpVars, fsVars, sessionVars, vaVars, clVars, hdVars, lateVars>>
SpecExtract == InitExtract /\ [][NextExtract]_vars

\* analyze_page on every response, called with growing attempt numbers
InitVision == VaInit /\ CpIdle /\ FsIdle /\ ClIdle /\ ExIdle /\ HdIdle /\ LateIdle /\ SessionIdle
NextVision == (VaCall \/ VaLater) /\ UNCHANGED <<cpVars, fsVars, sessionVars, clVars, exVars, hdVars, lateVars>>
SpecVision == InitVision /\ [][NextVision]_vars

\* the steps of AgentChallengeSolver in full, up to step StepCap
Init == CpIdle /\ FsIdle /\ VaIdle /\ ClIdle /\ ExIdle /\ HdIdle /\ LateIdle /\ SessionInit({"agent"}, {FALSE})
Next == \/ RunStart
        \/ StartStep(StepCap)
        \/ StepFailed
        \/ AttemptHead(PageCap)
        \/ Exhausted
        \/ FastReveal
        \/ FastSubmitDom
        \/ FastRadio
        \/ FastMath
        \/ FastHandlers
        \/ FastScroll
        \/ FastFresh
        \/ FastSubmitFresh
        \/ FastDrag
        \/ FastSubmitAgain
        \/ FastCheck
        \/ ScrollPhase0
        \/ ScrollSubmitPhase0
        \/ ScrollClicks
        \/ ScrollPhase3
        \/ ScrollSubmitStepD
        \/ ScrollPhase4
        \/ ScrollSubmitPhase4
        \/ ScrollPhase5
        \/ ScrollError
        \/ ScrollReturn
        \/ AgentAsk
        \/ AgentCode
        \/ AgentExec
        \/ AgentSubmitNew
        \/ AgentCheck
        \/ AgentTrap
        \/ AgentRerun
        \/ AgentRerunTail
        \/ AgentResubmit
        \/ AgentModal
Spec == Init /\ [][Next]_vars

\* an archetype handler of ChallengeSolver called once
InitHandlers == HdInit /\ LateIdle /\ CpIdle /\ FsIdle /\ VaIdle /\ ClIdle /\ ExIdle /\ SessionIdle
NextHandlers == HdCall /\ UNCHANGED <<cpVars, fsVars, sessionVars, vaVars, clVars, exVars, lateVars>>
SpecHandlers == InitHandlers /\ [][NextHandlers]_vars

\* the steps of ChallengeSolver in full, up to step StepCap
InitClassic == /\ CpIdle /\ FsIdle /\ VaIdle /\ ClIdle /\ ExIdle /\ HdIdle /\ LateIdle
               /\ SessionInit({"classic"}, {FALSE})
NextClassic == \/ RunStart
               \/ StartStep(StepCap)
               \/ StepFailed
               \/ AttemptHead(PageCap)
               \/ Exhausted
               \/ ClassicSpecial
               \/ \E h \in HandlerNames : ClassicHandler(h)
               \/ ClassicBruteForce
               \/ ClassicExtract
               \/ ClassicFallback
               \/ ClassicVision
SpecClassic == InitClassic /\ [][NextClassic]_vars

\* the fast path of AgentChallengeSolver on pages with content
InitScenario == /\ CpIdle /\ FsIdle /\ VaIdle /\ ClIdle /\ ExIdle /\ HdIdle /\ LateIdle
                /\ SessionInit({"agent"}, {FALSE})
NextScenario == \/ RunStart
                \/ StartStep(ScenarioSteps)
                \/ StepFailed
                \/ AttemptHead(ScenarioPages)
                \/ Exhausted
                \/ FastRevealContent
                \/ FastSubmitContent
                \/ FastRest
                \/ LaterAttempt
SpecScenario == InitScenario /\ [][NextScenario]_vars

\* the session of either solver over all the steps, attempts taken whole
InitRun == CpIdle /\ FsIdle /\ VaIdle /\ ClIdle /\ ExIdle /\ HdIdle /\ LateIdle /\ SessionInit({"agent", "classic"}, {FALSE})
NextRun == \/ RunStart
           \/ StartStep(TotalSteps)
           \/ StepFailed
           \/ RunFinish
           \/ AttemptHead(TotalSteps + 1)
           \/ Exhausted
           \/ AttemptBody
SpecRun == InitRun /\ [][NextRun]_vars

\* main() of either entry point: the session under the wall-clock budget, with
\* faults; what the program does next happens (the operator and the faults need not)
InitMain == /\ CpIdle /\ FsIdle /\ VaIdle /\ ClIdle /\ ExIdle /\ HdIdle /\ LateIdle
            /\ SessionInit({"agent", "classic"}, BOOLEAN)
NextProgram == \/ NextRun
               \/ FinallyCancelled
               \/ FinallyRaised
               \/ MainReturn
               \/ MainTimeout
               \/ WriteResults
NextMain == \/ NextProgram
            \/ Cancel
            \/ Raise
            \/ PressEnter
SpecMain == /\ InitMain /\ [][NextMain]_vars
            /\ WF_vars(FinallyCancelled) /\ WF_vars(MainTimeout) /\ WF_vars(WriteResults)


\* a MetricsTracker under every sequence of calls of the bounds
InitTracker == /\ MtInit /\ UsIdle /\ DtIdle /\ AuIdle /\ VdIdle
               /\ CpIdle /\ FsIdle /\ VaIdle /\ ClIdle /\ ExIdle /\ HdIdle /\ SessionIdle
TrackerFixed == UNCHANGED <<cpVars, fsVars, sessionVars, vaVars, clVars, exVars, hdVars,
                            usVars, dtVars, auVars, vdVars>>
NextTracker == \/ MtStart /\ TrackerFixed
               \/ MtEnd /\ TrackerFixed
SpecTracker == InitTracker /\ [][NextTracker]_vars

\* the session of AgentChallengeSolver with its accounting, up to step UsageSteps
InitUsage == /\ MtInit /\ UsInit /\ DtIdle /\ AuIdle /\ VdIdle
             /\ CpIdle /\ FsIdle /\ VaIdle /\ ClIdle /\ ExIdle /\ HdIdle /\ SessionIdle
UsageFixed == UNCHANGED <<cpVars, fsVars, sessionVars, vaVars, clVars, exVars, hdVars,
                          dtVars, auVars, vdVars>>
NextUsage == \/ UsStartStep /\ UsageFixed
             \/ UsHead /\ UsageFixed
             \/ UsFast /\ UsageFixed
             \/ UsAgent /\ UsageFixed
SpecUsage == InitUsage /\ [][NextUsage]_vars

\* detect_challenge_type on every page of the bounds
InitDetect == /\ DtInit /\ MtIdle /\ UsIdle /\ AuIdle /\ VdIdle
              /\ CpIdle /\ FsIdle /\ VaIdle /\ ClIdle /\ ExIdle /\ HdIdle /\ SessionIdle
NextDetect == DtCall /\ UNCHANGED <<cpVars, fsVars, sessionVars, vaVars, clVars, exVars,
                                    hdVars, mtVars, usVars, auVars, vdVars>>
SpecDetect == InitDetect /\ [][NextDetect]_vars

\* the audio handler called up to AudioCalls times, the responses of the page
\* and the cancellation of the session
InitAudio == /\ AuInit /\ MtIdle /\ UsIdle /\ DtIdle /\ VdIdle
             /\ CpIdle /\ FsIdle /\ VaIdle /\ ClIdle /\ ExIdle /\ HdIdle /\ SessionIdle
AudioFixed == UNCHANGED <<cpVars, fsVars, sessionVars, vaVars, clVars, exVars, hdVars,
                          mtVars, usVars, dtVars, vdVars>>
NextAudio == \/ AuEnter /\ AudioFixed
             \/ AuRegister /\ AudioFixed
             \/ AuPlay /\ AudioFixed
             \/ AuPhase2 /\ AudioFixed
             \/ AuRemove /\ AudioFixed
             \/ AuPhase34 /\ AudioFixed
             \/ AuRaise /\ AudioFixed
             \/ AuResponse /\ AudioFixed
             \/ AuBody /\ AudioFixed
             \/ AuCancel /\ AudioFixed
             \/ AuStopped /\ AudioFixed
SpecAudio == InitAudio /\ [][NextAudio]_vars

\* the video handler on every page of the bounds
InitVideo == /\ VdInit /\ MtIdle /\ UsIdle /\ DtIdle /\ AuIdle
             /\ CpIdle /\ FsIdle /\ VaIdle /\ ClIdle /\ ExIdle /\ HdIdle /\ SessionIdle
VideoFixed == UNCHANGED <<cpVars, fsVars, sessionVars, vaVars, clVars, exVars, hdVars,
                          mtVars, usVars, dtVars, auVars>>
NextVideo == \/ VdParse /\ VideoFixed
             \/ VdSeek /\ VideoFixed
             \/ VdNavigate /\ VideoFixed
             \/ VdManual /\ VideoFixed
             \/ VdFinish /\ VideoFixed
             \/ VdRaise /\ VideoFixed
SpecVideo == InitVideo /\ [][NextVideo]_vars
=============================================================================
